---- MODULE Spec2Model ----
(***************************************************************************)
(* Model of xml_to_csv.py: the XML-Log Extractor.                          *)
(*                                                                         *)
(* Text is a sequence of tokens.  A token is a record [k, v, x, a]:        *)
(*   k = "sp"    one character v that str.isspace() holds of               *)
(*   k = "ch"    a run v of other characters that is not a tag ("-" is     *)
(*               one, and so is a character written by name)               *)
(*   k = "open"  the start tag <v ...> with xmlns declaration x and        *)
(*               attribute list a, the values as they are written          *)
(*   k = "close" the end tag </v>                                          *)
(*   k = "decl"  the XML declaration <?xml ...?>                           *)
(*   k = "bad"   a "<" that begins no tag                                  *)
(* A character is a string: itself if it is printable ASCII, tab, newline  *)
(* or carriage return, and otherwise its name, as Python writes it         *)
(* ("\\xa0", "\\u2003") or as Unicode does ("U+00E9").  A Python str is    *)
(* the sequence of its characters: a Str.  Documents hold no comments,     *)
(* processing instructions, CDATA sections or document type declarations.  *)
(* The console either encodes every character (UTF-8 stdout) or encodes    *)
(* ASCII only (PYTHONIOENCODING=ascii): consoleOk.  The paths are ASCII:   *)
(* __main__ prints both before it calls xml_to_csv.                        *)
(***************************************************************************)
EXTENDS Integers, Sequences, FiniteSets, TLC

VARIABLES
    inKind,         \* the input path: "missing", "text" or "notutf8"
    inContent,      \* the text of the input file
    undecorated,    \* the document inContent was decorated from
    outDirOk,       \* the directory of the output path exists
    outFile,        \* the file at the output path: [exists, rows]
    consoleOk,      \* sys.stdout encodes every character; ASCII only if not
    pc,             \* position in xml_to_csv
    xml_string,     \* local xml_string
    cleaned_lines,  \* local cleaned_lines
    csv_data,       \* local csv_data
    exc,            \* the exception the try block raised
    excText,        \* str(exc) where it repeats the input, else <<>>
    message,        \* the first line printed by the step that ends the run
    exitStatus      \* process exit status, -1 while running

vars == <<inKind, inContent, undecorated, outDirOk, outFile, consoleOk, pc,
          xml_string, cleaned_lines, csv_data, exc, excText, message, exitStatus>>

----------------------------------------------------------------------------
(* Bounds of the model *)

MaxData == 2

MaxEvents == 2

MaxIndent == 1

----------------------------------------------------------------------------
(* Tokens *)

NoAttrs == <<>>

Sp(c) == [k |-> "sp", v |-> c, x |-> "", a |-> NoAttrs]

Ch(c) == [k |-> "ch", v |-> c, x |-> "", a |-> NoAttrs]

Open(n, x, a) == [k |-> "open", v |-> n, x |-> x, a |-> a]

Close(n) == [k |-> "close", v |-> n, x |-> "", a |-> NoAttrs]

Decl == [k |-> "decl", v |-> "xml", x |-> "", a |-> NoAttrs]

Bad == [k |-> "bad", v |-> "<", x |-> "", a |-> NoAttrs]

SPACE == Sp(" ")

NL == Sp("\n")

DASH == Ch("-")

Attr(n, val) == [n |-> n, val |-> val]

\* the namespace of ns = {'evt': ...} and of the findall path
EVT == "http://schemas.microsoft.com/win/2004/08/events/event"

----------------------------------------------------------------------------
(* Characters *)

Digits == <<"0", "1", "2", "3", "4", "5", "6", "7", "8", "9">>

IsDigit(c) == \E d \in 1..10 : Digits[d] = c

DigitVal(c) == (CHOOSE d \in 1..10 : Digits[d] = c) - 1

HexLower ==
    <<"0", "1", "2", "3", "4", "5", "6", "7", "8", "9", "a", "b", "c", "d", "e", "f">>

HexUpper ==
    <<"0", "1", "2", "3", "4", "5", "6", "7", "8", "9", "A", "B", "C", "D", "E", "F">>

IsHex(c) == \E i \in 1..16 : c = HexLower[i] \/ c = HexUpper[i]

HexVal(c) == (CHOOSE i \in 1..16 : c = HexLower[i] \/ c = HexUpper[i]) - 1

\* 'literal' as a Str
Str(lit) == [i \in 1..Len(lit) |-> SubSeq(lit, i, i)]

\* the number written by the digits ds in a base; from 0x110000 on the
\* digits that follow are not read
RECURSIVE RefNum(_, _)
RefNum(ds, base) ==
    IF ds = <<>> THEN 0
    ELSE LET high == RefNum(SubSeq(ds, 1, Len(ds) - 1), base)
         IN  IF high > 1114111 THEN high ELSE high * base + HexVal(ds[Len(ds)])

\* c is the name of a character: \xNN, \uNNNN, \UNNNNNNNN or U+NNNN
IsName(c) ==
    /\ Len(c) >= 4
    /\ \/ SubSeq(c, 1, 2) = "\\x" /\ Len(c) = 4
       \/ SubSeq(c, 1, 2) = "\\u" /\ Len(c) = 6
       \/ SubSeq(c, 1, 2) = "\\U" /\ Len(c) = 10
       \/ SubSeq(c, 1, 2) = "U+" /\ Len(c) \in 6..8
    /\ \A i \in 3..Len(c) : IsHex(SubSeq(c, i, i))

\* the printable characters of ASCII from code 32 to code 95 and from code
\* 97 to code 126; code 96 is written by name
PrintableLow ==
    " !\"#$%&'()*+,-./0123456789:;<=>?@ABCDEFGHIJKLMNOPQRSTUVWXYZ[\\]^_"

PrintableHigh == "abcdefghijklmnopqrstuvwxyz{|}~"

\* ord(c)
CodePoint(c) ==
    CASE IsName(c) -> RefNum(Str(SubSeq(c, 3, Len(c))), 16)
      [] c = "\t"  -> 9
      [] c = "\n"  -> 10
      [] c = "\r"  -> 13
      [] \E i \in 1..64 : SubSeq(PrintableLow, i, i) = c ->
             31 + (CHOOSE i \in 1..64 : SubSeq(PrintableLow, i, i) = c)
      [] OTHER     -> 96 + (CHOOSE i \in 1..30 : SubSeq(PrintableHigh, i, i) = c)

\* the characters of a run: a name is one character
Chars(v) == IF IsName(v) THEN <<v>> ELSE Str(v)

\* the characters of a sequence of runs
RECURSIVE Flat(_)
Flat(s) == IF s = <<>> THEN <<>> ELSE Chars(Head(s)) \o Flat(Tail(s))

\* the white space of XML
WhitespaceXml == {" ", "\t", "\r", "\n"}

\* the characters str.lstrip() and str.strip() remove: the white space of XML,
\* the control characters that XML forbids, and those that XML takes for
\* character data
WhitespaceChars ==
    WhitespaceXml
        \cup {"\\x0b", "\\x0c", "\\x1c", "\\x1d", "\\x1e", "\\x1f"}
        \cup {"\\x85", "\\xa0", "\\u1680", "\\u2000", "\\u2001", "\\u2002", "\\u2003",
              "\\u2004", "\\u2005", "\\u2006", "\\u2007", "\\u2008", "\\u2009", "\\u200a",
              "\\u2028", "\\u2029", "\\u202f", "\\u205f", "\\u3000"}

NBSP == Sp("\\xa0")

\* c.isspace()
IsSpace(c) ==
    \/ c \in WhitespaceChars
    \/ IsName(c) /\ \E w \in WhitespaceChars : IsName(w) /\ CodePoint(w) = CodePoint(c)

\* the Char production of XML 1.0 as expat reads it: no control character but
\* tab, newline and carriage return, no surrogate, not U+FFFE or U+FFFF
IsXmlCode(n) ==
    \/ n \in {9, 10, 13}
    \/ n >= 32 /\ n <= 55295
    \/ n >= 57344 /\ n <= 65533
    \/ n >= 65536 /\ n <= 1114111

IsXmlChar(c) == ~IsName(c) \/ IsXmlCode(CodePoint(c))

\* n in hexadecimal, in at least width digits
RECURSIVE HexStr(_, _, _)
HexStr(n, width, digits) ==
    IF n = 0 /\ width <= 0 THEN ""
    ELSE HexStr(n \div 16, width - 1, digits) \o digits[(n % 16) + 1]

\* chr(n)
CharOf(n) ==
    CASE n = 9  -> "\t"
      [] n = 10 -> "\n"
      [] n = 13 -> "\r"
      [] n >= 32 /\ n <= 95  -> SubSeq(PrintableLow, n - 31, n - 31)
      [] n >= 97 /\ n <= 126 -> SubSeq(PrintableHigh, n - 96, n - 96)
      [] \E w \in WhitespaceChars : IsName(w) /\ CodePoint(w) = n ->
             CHOOSE w \in WhitespaceChars : IsName(w) /\ CodePoint(w) = n
      [] OTHER  -> "U+" \o HexStr(n, 4, HexUpper)

\* the sequences of ss one after the other
RECURSIVE Concat(_)
Concat(ss) == IF ss = <<>> THEN <<>> ELSE Head(ss) \o Concat(Tail(ss))

\* the ranges of the code points from 128 on that str.isprintable() does not
\* hold of, in the Unicode 14 tables of Python 3.11: control and format
\* characters, separators, surrogates, private use and the code points that
\* are not assigned
NotPrintable ==
    <<
        <<128, 160>>, <<173, 173>>, <<888, 889>>, <<896, 899>>, <<907, 907>>,
        <<909, 909>>, <<930, 930>>, <<1328, 1328>>, <<1367, 1368>>, <<1419, 1420>>,
        <<1424, 1424>>, <<1480, 1487>>, <<1515, 1518>>, <<1525, 1541>>, <<1564, 1564>>,
        <<1757, 1757>>, <<1806, 1807>>, <<1867, 1868>>, <<1970, 1983>>, <<2043, 2044>>,
        <<2094, 2095>>, <<2111, 2111>>, <<2140, 2141>>, <<2143, 2143>>, <<2155, 2159>>,
        <<2191, 2199>>, <<2274, 2274>>, <<2436, 2436>>, <<2445, 2446>>, <<2449, 2450>>,
        <<2473, 2473>>, <<2481, 2481>>, <<2483, 2485>>, <<2490, 2491>>, <<2501, 2502>>,
        <<2505, 2506>>, <<2511, 2518>>, <<2520, 2523>>, <<2526, 2526>>, <<2532, 2533>>,
        <<2559, 2560>>, <<2564, 2564>>, <<2571, 2574>>, <<2577, 2578>>, <<2601, 2601>>,
        <<2609, 2609>>, <<2612, 2612>>, <<2615, 2615>>, <<2618, 2619>>, <<2621, 2621>>,
        <<2627, 2630>>, <<2633, 2634>>, <<2638, 2640>>, <<2642, 2648>>, <<2653, 2653>>,
        <<2655, 2661>>, <<2679, 2688>>, <<2692, 2692>>, <<2702, 2702>>, <<2706, 2706>>,
        <<2729, 2729>>, <<2737, 2737>>, <<2740, 2740>>, <<2746, 2747>>, <<2758, 2758>>,
        <<2762, 2762>>, <<2766, 2767>>, <<2769, 2783>>, <<2788, 2789>>, <<2802, 2808>>,
        <<2816, 2816>>, <<2820, 2820>>, <<2829, 2830>>, <<2833, 2834>>, <<2857, 2857>>,
        <<2865, 2865>>, <<2868, 2868>>, <<2874, 2875>>, <<2885, 2886>>, <<2889, 2890>>,
        <<2894, 2900>>, <<2904, 2907>>, <<2910, 2910>>, <<2916, 2917>>, <<2936, 2945>>,
        <<2948, 2948>>, <<2955, 2957>>, <<2961, 2961>>, <<2966, 2968>>, <<2971, 2971>>,
        <<2973, 2973>>, <<2976, 2978>>, <<2981, 2983>>, <<2987, 2989>>, <<3002, 3005>>,
        <<3011, 3013>>, <<3017, 3017>>, <<3022, 3023>>, <<3025, 3030>>, <<3032, 3045>>,
        <<3067, 3071>>, <<3085, 3085>>, <<3089, 3089>>, <<3113, 3113>>, <<3130, 3131>>,
        <<3141, 3141>>, <<3145, 3145>>, <<3150, 3156>>, <<3159, 3159>>, <<3163, 3164>>,
        <<3166, 3167>>, <<3172, 3173>>, <<3184, 3190>>, <<3213, 3213>>, <<3217, 3217>>,
        <<3241, 3241>>, <<3252, 3252>>, <<3258, 3259>>, <<3269, 3269>>, <<3273, 3273>>,
        <<3278, 3284>>, <<3287, 3292>>, <<3295, 3295>>, <<3300, 3301>>, <<3312, 3312>>,
        <<3315, 3327>>, <<3341, 3341>>, <<3345, 3345>>, <<3397, 3397>>, <<3401, 3401>>,
        <<3408, 3411>>, <<3428, 3429>>, <<3456, 3456>>, <<3460, 3460>>, <<3479, 3481>>,
        <<3506, 3506>>, <<3516, 3516>>, <<3518, 3519>>, <<3527, 3529>>, <<3531, 3534>>,
        <<3541, 3541>>, <<3543, 3543>>, <<3552, 3557>>, <<3568, 3569>>, <<3573, 3584>>,
        <<3643, 3646>>, <<3676, 3712>>, <<3715, 3715>>, <<3717, 3717>>, <<3723, 3723>>,
        <<3748, 3748>>, <<3750, 3750>>, <<3774, 3775>>, <<3781, 3781>>, <<3783, 3783>>,
        <<3790, 3791>>, <<3802, 3803>>, <<3808, 3839>>, <<3912, 3912>>, <<3949, 3952>>,
        <<3992, 3992>>, <<4029, 4029>>, <<4045, 4045>>, <<4059, 4095>>, <<4294, 4294>>,
        <<4296, 4300>>, <<4302, 4303>>, <<4681, 4681>>, <<4686, 4687>>, <<4695, 4695>>,
        <<4697, 4697>>, <<4702, 4703>>, <<4745, 4745>>, <<4750, 4751>>, <<4785, 4785>>,
        <<4790, 4791>>, <<4799, 4799>>, <<4801, 4801>>, <<4806, 4807>>, <<4823, 4823>>,
        <<4881, 4881>>, <<4886, 4887>>, <<4955, 4956>>, <<4989, 4991>>, <<5018, 5023>>,
        <<5110, 5111>>, <<5118, 5119>>, <<5760, 5760>>, <<5789, 5791>>, <<5881, 5887>>,
        <<5910, 5918>>, <<5943, 5951>>, <<5972, 5983>>, <<5997, 5997>>, <<6001, 6001>>,
        <<6004, 6015>>, <<6110, 6111>>, <<6122, 6127>>, <<6138, 6143>>, <<6158, 6158>>,
        <<6170, 6175>>, <<6265, 6271>>, <<6315, 6319>>, <<6390, 6399>>, <<6431, 6431>>,
        <<6444, 6447>>, <<6460, 6463>>, <<6465, 6467>>, <<6510, 6511>>, <<6517, 6527>>,
        <<6572, 6575>>, <<6602, 6607>>, <<6619, 6621>>, <<6684, 6685>>, <<6751, 6751>>,
        <<6781, 6782>>, <<6794, 6799>>, <<6810, 6815>>, <<6830, 6831>>, <<6863, 6911>>,
        <<6989, 6991>>, <<7039, 7039>>, <<7156, 7163>>, <<7224, 7226>>, <<7242, 7244>>,
        <<7305, 7311>>, <<7355, 7356>>, <<7368, 7375>>, <<7419, 7423>>, <<7958, 7959>>,
        <<7966, 7967>>, <<8006, 8007>>, <<8014, 8015>>, <<8024, 8024>>, <<8026, 8026>>,
        <<8028, 8028>>, <<8030, 8030>>, <<8062, 8063>>, <<8117, 8117>>, <<8133, 8133>>,
        <<8148, 8149>>, <<8156, 8156>>, <<8176, 8177>>, <<8181, 8181>>, <<8191, 8207>>,
        <<8232, 8239>>, <<8287, 8303>>, <<8306, 8307>>, <<8335, 8335>>, <<8349, 8351>>,
        <<8385, 8399>>, <<8433, 8447>>, <<8588, 8591>>, <<9255, 9279>>, <<9291, 9311>>,
        <<11124, 11125>>, <<11158, 11158>>, <<11508, 11512>>, <<11558, 11558>>,
        <<11560, 11564>>, <<11566, 11567>>, <<11624, 11630>>, <<11633, 11646>>,
        <<11671, 11679>>, <<11687, 11687>>, <<11695, 11695>>, <<11703, 11703>>,
        <<11711, 11711>>, <<11719, 11719>>, <<11727, 11727>>, <<11735, 11735>>,
        <<11743, 11743>>, <<11870, 11903>>, <<11930, 11930>>, <<12020, 12031>>,
        <<12246, 12271>>, <<12284, 12288>>, <<12352, 12352>>, <<12439, 12440>>,
        <<12544, 12548>>, <<12592, 12592>>, <<12687, 12687>>, <<12772, 12783>>,
        <<12831, 12831>>, <<42125, 42127>>, <<42183, 42191>>, <<42540, 42559>>,
        <<42744, 42751>>, <<42955, 42959>>, <<42962, 42962>>, <<42964, 42964>>,
        <<42970, 42993>>, <<43053, 43055>>, <<43066, 43071>>, <<43128, 43135>>,
        <<43206, 43213>>, <<43226, 43231>>, <<43348, 43358>>, <<43389, 43391>>,
        <<43470, 43470>>, <<43482, 43485>>, <<43519, 43519>>, <<43575, 43583>>,
        <<43598, 43599>>, <<43610, 43611>>, <<43715, 43738>>, <<43767, 43776>>,
        <<43783, 43784>>, <<43791, 43792>>, <<43799, 43807>>, <<43815, 43815>>,
        <<43823, 43823>>, <<43884, 43887>>, <<44014, 44015>>, <<44026, 44031>>,
        <<55204, 55215>>, <<55239, 55242>>, <<55292, 63743>>, <<64110, 64111>>,
        <<64218, 64255>>, <<64263, 64274>>, <<64280, 64284>>, <<64311, 64311>>,
        <<64317, 64317>>, <<64319, 64319>>, <<64322, 64322>>, <<64325, 64325>>,
        <<64451, 64466>>, <<64912, 64913>>, <<64968, 64974>>, <<64976, 65007>>,
        <<65050, 65055>>, <<65107, 65107>>, <<65127, 65127>>, <<65132, 65135>>,
        <<65141, 65141>>, <<65277, 65280>>, <<65471, 65473>>, <<65480, 65481>>,
        <<65488, 65489>>, <<65496, 65497>>, <<65501, 65503>>, <<65511, 65511>>,
        <<65519, 65531>>, <<65534, 65535>>, <<65548, 65548>>, <<65575, 65575>>,
        <<65595, 65595>>, <<65598, 65598>>, <<65614, 65615>>, <<65630, 65663>>,
        <<65787, 65791>>, <<65795, 65798>>, <<65844, 65846>>, <<65935, 65935>>,
        <<65949, 65951>>, <<65953, 65999>>, <<66046, 66175>>, <<66205, 66207>>,
        <<66257, 66271>>, <<66300, 66303>>, <<66340, 66348>>, <<66379, 66383>>,
        <<66427, 66431>>, <<66462, 66462>>, <<66500, 66503>>, <<66518, 66559>>,
        <<66718, 66719>>, <<66730, 66735>>, <<66772, 66775>>, <<66812, 66815>>,
        <<66856, 66863>>, <<66916, 66926>>, <<66939, 66939>>, <<66955, 66955>>,
        <<66963, 66963>>, <<66966, 66966>>, <<66978, 66978>>, <<66994, 66994>>,
        <<67002, 67002>>, <<67005, 67071>>, <<67383, 67391>>, <<67414, 67423>>,
        <<67432, 67455>>, <<67462, 67462>>, <<67505, 67505>>, <<67515, 67583>>,
        <<67590, 67591>>, <<67593, 67593>>, <<67638, 67638>>, <<67641, 67643>>,
        <<67645, 67646>>, <<67670, 67670>>, <<67743, 67750>>, <<67760, 67807>>,
        <<67827, 67827>>, <<67830, 67834>>, <<67868, 67870>>, <<67898, 67902>>,
        <<67904, 67967>>, <<68024, 68027>>, <<68048, 68049>>, <<68100, 68100>>,
        <<68103, 68107>>, <<68116, 68116>>, <<68120, 68120>>, <<68150, 68151>>,
        <<68155, 68158>>, <<68169, 68175>>, <<68185, 68191>>, <<68256, 68287>>,
        <<68327, 68330>>, <<68343, 68351>>, <<68406, 68408>>, <<68438, 68439>>,
        <<68467, 68471>>, <<68498, 68504>>, <<68509, 68520>>, <<68528, 68607>>,
        <<68681, 68735>>, <<68787, 68799>>, <<68851, 68857>>, <<68904, 68911>>,
        <<68922, 69215>>, <<69247, 69247>>, <<69290, 69290>>, <<69294, 69295>>,
        <<69298, 69375>>, <<69416, 69423>>, <<69466, 69487>>, <<69514, 69551>>,
        <<69580, 69599>>, <<69623, 69631>>, <<69710, 69713>>, <<69750, 69758>>,
        <<69821, 69821>>, <<69827, 69839>>, <<69865, 69871>>, <<69882, 69887>>,
        <<69941, 69941>>, <<69960, 69967>>, <<70007, 70015>>, <<70112, 70112>>,
        <<70133, 70143>>, <<70162, 70162>>, <<70207, 70271>>, <<70279, 70279>>,
        <<70281, 70281>>, <<70286, 70286>>, <<70302, 70302>>, <<70314, 70319>>,
        <<70379, 70383>>, <<70394, 70399>>, <<70404, 70404>>, <<70413, 70414>>,
        <<70417, 70418>>, <<70441, 70441>>, <<70449, 70449>>, <<70452, 70452>>,
        <<70458, 70458>>, <<70469, 70470>>, <<70473, 70474>>, <<70478, 70479>>,
        <<70481, 70486>>, <<70488, 70492>>, <<70500, 70501>>, <<70509, 70511>>,
        <<70517, 70655>>, <<70748, 70748>>, <<70754, 70783>>, <<70856, 70863>>,
        <<70874, 71039>>, <<71094, 71095>>, <<71134, 71167>>, <<71237, 71247>>,
        <<71258, 71263>>, <<71277, 71295>>, <<71354, 71359>>, <<71370, 71423>>,
        <<71451, 71452>>, <<71468, 71471>>, <<71495, 71679>>, <<71740, 71839>>,
        <<71923, 71934>>, <<71943, 71944>>, <<71946, 71947>>, <<71956, 71956>>,
        <<71959, 71959>>, <<71990, 71990>>, <<71993, 71994>>, <<72007, 72015>>,
        <<72026, 72095>>, <<72104, 72105>>, <<72152, 72153>>, <<72165, 72191>>,
        <<72264, 72271>>, <<72355, 72367>>, <<72441, 72703>>, <<72713, 72713>>,
        <<72759, 72759>>, <<72774, 72783>>, <<72813, 72815>>, <<72848, 72849>>,
        <<72872, 72872>>, <<72887, 72959>>, <<72967, 72967>>, <<72970, 72970>>,
        <<73015, 73017>>, <<73019, 73019>>, <<73022, 73022>>, <<73032, 73039>>,
        <<73050, 73055>>, <<73062, 73062>>, <<73065, 73065>>, <<73103, 73103>>,
        <<73106, 73106>>, <<73113, 73119>>, <<73130, 73439>>, <<73465, 73647>>,
        <<73649, 73663>>, <<73714, 73726>>, <<74650, 74751>>, <<74863, 74863>>,
        <<74869, 74879>>, <<75076, 77711>>, <<77811, 77823>>, <<78895, 82943>>,
        <<83527, 92159>>, <<92729, 92735>>, <<92767, 92767>>, <<92778, 92781>>,
        <<92863, 92863>>, <<92874, 92879>>, <<92910, 92911>>, <<92918, 92927>>,
        <<92998, 93007>>, <<93018, 93018>>, <<93026, 93026>>, <<93048, 93052>>,
        <<93072, 93759>>, <<93851, 93951>>, <<94027, 94030>>, <<94088, 94094>>,
        <<94112, 94175>>, <<94181, 94191>>, <<94194, 94207>>, <<100344, 100351>>,
        <<101590, 101631>>, <<101641, 110575>>, <<110580, 110580>>, <<110588, 110588>>,
        <<110591, 110591>>, <<110883, 110927>>, <<110931, 110947>>, <<110952, 110959>>,
        <<111356, 113663>>, <<113771, 113775>>, <<113789, 113791>>, <<113801, 113807>>,
        <<113818, 113819>>, <<113824, 118527>>, <<118574, 118575>>, <<118599, 118607>>,
        <<118724, 118783>>, <<119030, 119039>>, <<119079, 119080>>, <<119155, 119162>>,
        <<119275, 119295>>, <<119366, 119519>>, <<119540, 119551>>, <<119639, 119647>>,
        <<119673, 119807>>, <<119893, 119893>>, <<119965, 119965>>, <<119968, 119969>>,
        <<119971, 119972>>, <<119975, 119976>>, <<119981, 119981>>, <<119994, 119994>>,
        <<119996, 119996>>, <<120004, 120004>>, <<120070, 120070>>, <<120075, 120076>>,
        <<120085, 120085>>, <<120093, 120093>>, <<120122, 120122>>, <<120127, 120127>>,
        <<120133, 120133>>, <<120135, 120137>>, <<120145, 120145>>, <<120486, 120487>>,
        <<120780, 120781>>, <<121484, 121498>>, <<121504, 121504>>, <<121520, 122623>>,
        <<122655, 122879>>, <<122887, 122887>>, <<122905, 122906>>, <<122914, 122914>>,
        <<122917, 122917>>, <<122923, 123135>>, <<123181, 123183>>, <<123198, 123199>>,
        <<123210, 123213>>, <<123216, 123535>>, <<123567, 123583>>, <<123642, 123646>>,
        <<123648, 124895>>, <<124903, 124903>>, <<124908, 124908>>, <<124911, 124911>>,
        <<124927, 124927>>, <<125125, 125126>>, <<125143, 125183>>, <<125260, 125263>>,
        <<125274, 125277>>, <<125280, 126064>>, <<126133, 126208>>, <<126270, 126463>>,
        <<126468, 126468>>, <<126496, 126496>>, <<126499, 126499>>, <<126501, 126502>>,
        <<126504, 126504>>, <<126515, 126515>>, <<126520, 126520>>, <<126522, 126522>>,
        <<126524, 126529>>, <<126531, 126534>>, <<126536, 126536>>, <<126538, 126538>>,
        <<126540, 126540>>, <<126544, 126544>>, <<126547, 126547>>, <<126549, 126550>>,
        <<126552, 126552>>, <<126554, 126554>>, <<126556, 126556>>, <<126558, 126558>>,
        <<126560, 126560>>, <<126563, 126563>>, <<126565, 126566>>, <<126571, 126571>>,
        <<126579, 126579>>, <<126584, 126584>>, <<126589, 126589>>, <<126591, 126591>>,
        <<126602, 126602>>, <<126620, 126624>>, <<126628, 126628>>, <<126634, 126634>>,
        <<126652, 126703>>, <<126706, 126975>>, <<127020, 127023>>, <<127124, 127135>>,
        <<127151, 127152>>, <<127168, 127168>>, <<127184, 127184>>, <<127222, 127231>>,
        <<127406, 127461>>, <<127491, 127503>>, <<127548, 127551>>, <<127561, 127567>>,
        <<127570, 127583>>, <<127590, 127743>>, <<128728, 128732>>, <<128749, 128751>>,
        <<128765, 128767>>, <<128884, 128895>>, <<128985, 128991>>, <<129004, 129007>>,
        <<129009, 129023>>, <<129036, 129039>>, <<129096, 129103>>, <<129114, 129119>>,
        <<129160, 129167>>, <<129198, 129199>>, <<129202, 129279>>, <<129620, 129631>>,
        <<129646, 129647>>, <<129653, 129655>>, <<129661, 129663>>, <<129671, 129679>>,
        <<129709, 129711>>, <<129723, 129727>>, <<129734, 129743>>, <<129754, 129759>>,
        <<129768, 129775>>, <<129783, 129791>>, <<129939, 129939>>, <<129995, 130031>>,
        <<130042, 131071>>, <<173792, 173823>>, <<177977, 177983>>, <<178206, 178207>>,
        <<183970, 183983>>, <<191457, 194559>>, <<195102, 196607>>, <<201547, 917759>>,
        <<918000, 1114111>>
    >>

\* c.isprintable()
IsPrintable(c) ==
    LET n == CodePoint(c)
    IN  /\ n >= 32 /\ n # 127
        /\ \A i \in 1..Len(NotPrintable) :
               n < NotPrintable[i][1] \/ n > NotPrintable[i][2]

\* repr(s) of a str: in single quotes, in double quotes when s holds a single
\* quote and no double quote; the quote and the backslash behind a backslash;
\* a character that is not printable as its escape
Repr(s) ==
    LET quote == IF (\E i \in 1..Len(s) : s[i] = "'")
                     /\ ~(\E i \in 1..Len(s) : s[i] = "\"")
                 THEN "\"" ELSE "'"
        Escape(c) ==
            LET n == CodePoint(c)
            IN  IF c = quote \/ c = "\\" THEN <<"\\", c>>
                ELSE IF c = "\t" THEN Str("\\t")
                ELSE IF c = "\n" THEN Str("\\n")
                ELSE IF c = "\r" THEN Str("\\r")
                ELSE IF IsPrintable(c) THEN <<c>>
                ELSE IF n <= 255 THEN Str("\\x" \o HexStr(n, 2, HexLower))
                ELSE IF n <= 65535 THEN Str("\\u" \o HexStr(n, 4, HexLower))
                ELSE Str("\\U" \o HexStr(n, 8, HexLower))
    IN  <<quote>> \o Concat([i \in 1..Len(s) |-> Escape(s[i])]) \o <<quote>>

\* a character of a str as a token of text
TokOf(c) == IF IsSpace(c) THEN Sp(c) ELSE Ch(c)

RECURSIVE ToToks(_)
ToToks(s) == IF s = <<>> THEN <<>> ELSE <<TokOf(Head(s))>> \o ToToks(Tail(s))

----------------------------------------------------------------------------
(* str methods *)

RECURSIVE lstrip(_)
lstrip(s) ==
    IF s # <<>> /\ Head(s).k = "sp" THEN lstrip(Tail(s)) ELSE s

RECURSIVE rstrip(_)
rstrip(s) ==
    IF s # <<>> /\ s[Len(s)].k = "sp" THEN rstrip(SubSeq(s, 1, Len(s) - 1)) ELSE s

strip(s) == rstrip(lstrip(s))

\* s.startswith('- ')
StartsWithDashSpace(s) == Len(s) >= 2 /\ s[1] = DASH /\ s[2] = SPACE

\* the characters of an attribute list as it is written
RECURSIVE AttrText(_)
AttrText(a) ==
    IF a = <<>> THEN <<>>
    ELSE <<" ">> \o Chars(Head(a).n) \o <<"=", "\"">> \o Flat(Head(a).val) \o <<"\"">>
             \o AttrText(Tail(a))

\* the characters of a token
TokText(t) ==
    CASE t.k = "open" ->
             <<"<">> \o Chars(t.v)
                 \o (CASE t.x = ""     -> <<>>
                       [] t.x = "NONE" -> Str(" xmlns=\"\"")
                       [] OTHER        -> Str(" xmlns=\"") \o Chars(t.x) \o <<"\"">>)
                 \o AttrText(t.a) \o <<">">>
      [] t.k = "close" -> <<"<", "/">> \o Chars(t.v) \o <<">">>
      [] t.k = "decl"  -> Str("<?xml version=\"1.0\"?>")
      [] OTHER         -> Chars(t.v)

\* the characters of a text
RECURSIVE Text(_)
Text(s) == IF s = <<>> THEN <<>> ELSE TokText(Head(s)) \o Text(Tail(s))

\* s[:n]
RECURSIVE TextHead(_, _)
TextHead(s, n) ==
    IF s = <<>> \/ n <= 0 THEN <<>>
    ELSE IF Len(TokText(Head(s))) >= n THEN SubSeq(TokText(Head(s)), 1, n)
    ELSE TokText(Head(s)) \o TextHead(Tail(s), n - Len(TokText(Head(s))))

\* s.startswith('<Event'): the six characters, whatever follows them
StartsWithEventTag(s) == TextHead(s, 6) = Str("<Event")

RECURSIVE split(_)
split(s) ==
    IF \E i \in 1..Len(s) : s[i] = NL
    THEN LET i == CHOOSE j \in 1..Len(s) :
                      s[j] = NL /\ \A m \in 1..(j - 1) : s[m] # NL
         IN  <<SubSeq(s, 1, i - 1)>> \o split(SubSeq(s, i + 1, Len(s)))
    ELSE <<s>>

RECURSIVE join(_)
join(ls) ==
    IF Len(ls) = 0 THEN <<>>
    ELSE IF Len(ls) = 1 THEN ls[1]
    ELSE ls[1] \o <<NL>> \o join(Tail(ls))

----------------------------------------------------------------------------
(* Lines 62-63: open(xml_input_file, 'r', encoding='utf-8').read()          *)

\* universal newlines on a Str: "\r\n" and "\r" are read as "\n"
UniversalStr(s) ==
    SelectSeq([i \in 1..Len(s) |->
                  IF s[i] = "\r" THEN "\n"
                  ELSE IF s[i] = "\n" /\ i > 1 /\ s[i - 1] = "\r" THEN ""
                  ELSE s[i]],
              LAMBDA c : c # "")

\* universal newlines on text, the attribute values of its tags included
Universal(s) ==
    SelectSeq([i \in 1..Len(s) |->
                  IF s[i] = Sp("\r") THEN NL
                  ELSE IF s[i] = NL /\ i > 1 /\ s[i - 1] = Sp("\r") THEN Sp("")
                  ELSE IF s[i].k = "open"
                  THEN [s[i] EXCEPT !.a = [m \in 1..Len(@) |->
                                             Attr(@[m].n, UniversalStr(@[m].val))]]
                  ELSE s[i]],
              LAMBDA t : t # Sp(""))

\* f.read(): the text of the file as the program sees it
ReadText(content) == Universal(content)

----------------------------------------------------------------------------
(* Lines 72-80: the cleanup loop.  A start tag is one token on the line      *)
(* where it begins; the lines that begin inside one of its attribute values *)
(* are cleaned by CleanValue as the loop cleans every line.                 *)

\* the characters of a line without its leading whitespace and without one
\* "- " after it
CleanChars(cs) ==
    LET k == CHOOSE n \in 0..Len(cs) :
                 /\ \A i \in 1..n : IsSpace(cs[i])
                 /\ n = Len(cs) \/ ~IsSpace(cs[n + 1])
        cleaned_line == SubSeq(cs, k + 1, Len(cs))
    IN  IF Len(cleaned_line) >= 2 /\ cleaned_line[1] = "-" /\ cleaned_line[2] = " "
        THEN SubSeq(cleaned_line, 3, Len(cleaned_line))
        ELSE cleaned_line

\* the characters after the first "\n" of cs, cleaned line by line
RECURSIVE CleanRest(_)
CleanRest(cs) ==
    IF \E i \in 1..Len(cs) : cs[i] = "\n"
    THEN LET i == CHOOSE j \in 1..Len(cs) :
                      cs[j] = "\n" /\ \A m \in 1..(j - 1) : cs[m] # "\n"
         IN  CleanChars(SubSeq(cs, 1, i - 1)) \o <<"\n">>
                 \o CleanRest(SubSeq(cs, i + 1, Len(cs)))
    ELSE CleanChars(cs)

\* an attribute value whose lines after the first are cleaned
CleanValue(val) ==
    IF \E i \in 1..Len(val) : val[i] = "\n"
    THEN LET cs == Flat(val)
             i == CHOOSE j \in 1..Len(cs) :
                      cs[j] = "\n" /\ \A m \in 1..(j - 1) : cs[m] # "\n"
         IN  SubSeq(cs, 1, i) \o CleanRest(SubSeq(cs, i + 1, Len(cs)))
    ELSE val

\* the tags of a line with their attribute values cleaned
CleanTags(line) ==
    [i \in 1..Len(line) |->
        IF line[i].k = "open"
        THEN [line[i] EXCEPT !.a = [m \in 1..Len(@) |-> Attr(@[m].n, CleanValue(@[m].val))]]
        ELSE line[i]]

\* CleanLine without the lstrip: only a "- " in column 0 is removed
CleanLineNoStrip(line) ==
    IF StartsWithDashSpace(line) THEN CleanTags(SubSeq(line, 3, Len(line)))
    ELSE CleanTags(line)

\* CleanLine that strips again after removing the marker
CleanLineGreedy(line) ==
    LET cleaned_line == lstrip(line)
    IN  IF StartsWithDashSpace(cleaned_line)
        THEN CleanTags(lstrip(SubSeq(cleaned_line, 3, Len(cleaned_line))))
        ELSE CleanTags(cleaned_line)

CleanLine(line) ==
    LET cleaned_line == lstrip(line)
    IN  IF StartsWithDashSpace(cleaned_line)
        THEN CleanTags(SubSeq(cleaned_line, 3, Len(cleaned_line)))
        ELSE CleanTags(cleaned_line)

CleanLines(lines) == [i \in 1..Len(lines) |-> CleanLine(lines[i])]

----------------------------------------------------------------------------
(* xml.etree.ElementTree *)

\* an Element: tag and namespace of its qualified name, attributes, text,
\* children and tail; text and tail <<>> stand for None
Element(tag, ns, a) ==
    [tag |-> tag, ns |-> ns, a |-> a, text |-> <<>>, kids |-> <<>>, tail |-> <<>>]

ParseFail == [ok |-> FALSE, root |-> Element("", "", NoAttrs)]

\* the namespace of an unprefixed start tag: its own xmlns declaration
\* ("NONE" is xmlns=""), or the default namespace in scope
Resolve(x, scope) ==
    CASE x = ""     -> scope
      [] x = "NONE" -> ""
      [] OTHER      -> x

\* character data goes to the text of the open element, or to the tail of its
\* last child
AddData(node, data) ==
    IF node.kids = <<>>
    THEN [node EXCEPT !.text = @ \o data]
    ELSE [node EXCEPT !.kids[Len(node.kids)].tail = @ \o data]

\* the position of the first ";" from p on, 0 if there is none
RefEnd(raw, p) ==
    IF \E q \in p..Len(raw) : raw[q] = ";"
    THEN CHOOSE q \in p..Len(raw) : raw[q] = ";" /\ \A m \in p..(q - 1) : raw[m] # ";"
    ELSE 0

\* the character of a character reference to code n, "" if XML has none
RefChar(n) == IF IsXmlCode(n) THEN CharOf(n) ELSE ""

\* the character the reference &name; stands for, "" if it stands for none
Ref(name) ==
    CASE name = Str("amp")  -> "&"
      [] name = Str("lt")   -> "<"
      [] name = Str("gt")   -> ">"
      [] name = Str("quot") -> "\""
      [] name = Str("apos") -> "'"
      [] /\ Len(name) >= 3 /\ name[1] = "#" /\ name[2] = "x"
         /\ \A i \in 3..Len(name) : IsHex(name[i]) ->
             RefChar(RefNum(SubSeq(name, 3, Len(name)), 16))
      [] /\ Len(name) >= 2 /\ name[1] = "#"
         /\ \A i \in 2..Len(name) : IsDigit(name[i]) ->
             RefChar(RefNum(SubSeq(name, 2, Len(name)), 10))
      [] OTHER -> ""

\* the character of the reference that begins at p, "" if none does
RefAt(raw, p) ==
    IF RefEnd(raw, p) = 0 THEN ""
    ELSE Ref(SubSeq(raw, p + 1, RefEnd(raw, p) - 1))

\* position p lies inside a reference that began before it
InRef(raw, p) ==
    \E q \in 1..(p - 1) : raw[q] = "&" /\ \A m \in q..(p - 1) : raw[m] # ";"

\* the parser stops at p: a "&" that begins no reference, a "<", "]]>" in
\* content, or a character XML does not have
BadAt(raw, p, inAttr) ==
    /\ ~InRef(raw, p)
    /\ \/ raw[p] = "&" /\ RefAt(raw, p) = ""
       \/ raw[p] = "<"
       \/ ~inAttr /\ p + 2 <= Len(raw) /\ SubSeq(raw, p, p + 2) = Str("]]>")
       \/ ~IsXmlChar(raw[p])

\* the character the parser reports for position p, "" if none: a reference
\* is replaced, "\r\n" and "\r" are one "\n", and in an attribute value a
\* tab or a line end is a space
ReportAt(raw, p, inAttr) ==
    IF InRef(raw, p) THEN ""
    ELSE IF raw[p] = "&" THEN RefAt(raw, p)
    ELSE IF raw[p] = "\r" THEN (IF inAttr THEN " " ELSE "\n")
    ELSE IF raw[p] = "\n" /\ p > 1 /\ raw[p - 1] = "\r" THEN ""
    ELSE IF inAttr /\ raw[p] \in {"\t", "\n"} THEN " "
    ELSE raw[p]

\* the characters written as raw, as the parser reports them: [ok, s]
Decode(raw, inAttr) ==
    [ok |-> \A p \in 1..Len(raw) : ~BadAt(raw, p, inAttr),
     s  |-> SelectSeq([p \in 1..Len(raw) |-> ReportAt(raw, p, inAttr)],
                      LAMBDA c : c # "")]

\* the value of an attribute written as val
AttrValue(val) == Decode(Flat(val), TRUE)

\* every value is well formed and no name occurs twice
AttrsOk(a) ==
    /\ \A m \in 1..Len(a) : AttrValue(a[m].val).ok
    /\ \A m, n \in 1..Len(a) : (a[m].n = a[n].n) => (m = n)

AttrValues(a) == [m \in 1..Len(a) |-> Attr(a[m].n, AttrValue(a[m].val).s)]

\* the position after the run of character data that begins at i
RECURSIVE DataEnd(_, _)
DataEnd(s, i) ==
    IF i <= Len(s) /\ s[i].k \in {"sp", "ch"} THEN DataEnd(s, i + 1) ELSE i

\* the characters of the tokens from i to j - 1
RawData(s, i, j) == Flat([m \in 1..(j - i) |-> s[i + m - 1].v])

\* the parser after a run of character data: outside the root element only
\* the white space of XML is allowed
AfterData(raw, depth) ==
    IF depth = 0
    THEN [ok |-> \A m \in 1..Len(raw) : raw[m] \in WhitespaceXml, s |-> <<>>]
    ELSE Decode(raw, FALSE)

RECURSIVE ParseFrom(_, _, _, _)
ParseFrom(s, i, stack, root) ==
    IF i > Len(s)
    THEN IF stack = <<>> /\ root # <<>>
         THEN [ok |-> TRUE, root |-> root[1]]
         ELSE ParseFail
    ELSE
      LET t == s[i]
          d == Len(stack)
      IN  CASE t.k = "decl" ->
                 IF i = 1 THEN ParseFrom(s, i + 1, stack, root) ELSE ParseFail
            [] t.k = "bad" -> ParseFail
            [] t.k \in {"sp", "ch"} ->
                 LET data == AfterData(RawData(s, i, DataEnd(s, i)), d)
                 IN  IF ~data.ok THEN ParseFail
                     ELSE IF d = 0 THEN ParseFrom(s, DataEnd(s, i), stack, root)
                     ELSE ParseFrom(s, DataEnd(s, i),
                              [stack EXCEPT ![d] = AddData(@, data.s)], root)
            [] t.k = "open" ->
                 IF (d = 0 /\ root # <<>>) \/ ~AttrsOk(t.a) THEN ParseFail
                 ELSE LET scope == IF d = 0 THEN "" ELSE stack[d].ns
                          node == Element(t.v, Resolve(t.x, scope), AttrValues(t.a))
                      IN  ParseFrom(s, i + 1, Append(stack, node), root)
            [] t.k = "close" ->
                 IF d = 0 \/ stack[d].tag # t.v THEN ParseFail
                 ELSE IF d = 1 THEN ParseFrom(s, i + 1, <<>>, <<stack[1]>>)
                 ELSE LET rest == SubSeq(stack, 1, d - 1)
                      IN  ParseFrom(s, i + 1,
                              [rest EXCEPT ![d - 1].kids = Append(@, stack[d])],
                              root)

\* ET.fromstring: [ok, root]; ~ok is ET.ParseError.  A byte order mark
\* (U+FEFF) at the very start is not part of the document.
fromstring(s) ==
    IF s # <<>> /\ s[1].k = "ch" /\ IsName(s[1].v) /\ CodePoint(s[1].v) = 65279
    THEN ParseFrom(Tail(s), 1, <<>>, <<>>)
    ELSE ParseFrom(s, 1, <<>>, <<>>)

\* Element.find('evt:tag', ns): the first child of that name, <<>> for None
Find(node, ns, tag) ==
    LET hits == SelectSeq(node.kids, LAMBDA k : k.ns = ns /\ k.tag = tag)
    IN  IF hits = <<>> THEN <<>> ELSE <<hits[1]>>

\* Element.findall('evt:tag', ns): the children of that name, in order
FindAll(node, ns, tag) ==
    SelectSeq(node.kids, LAMBDA k : k.ns = ns /\ k.tag = tag)

RECURSIVE DescOfKids(_)
DescOfKids(ks) ==
    IF ks = <<>> THEN <<>>
    ELSE <<Head(ks)>> \o DescOfKids(Head(ks).kids) \o DescOfKids(Tail(ks))

\* Element.findall('.//{ns}tag'): the descendants of that name, document order
FindAllDesc(node, ns, tag) ==
    SelectSeq(DescOfKids(node.kids), LAMBDA k : k.ns = ns /\ k.tag = tag)

\* Element.get(name): <<value>>, <<>> for None
Get(node, name) ==
    LET hits == SelectSeq(node.a, LAMBDA at : at.n = name)
    IN  IF hits = <<>> THEN <<>> ELSE <<hits[1].val>>

\* _escape_cdata: the text of an element as tostring writes it
RECURSIVE EscapeCdata(_)
EscapeCdata(text) ==
    IF text = <<>> THEN <<>>
    ELSE (CASE Head(text) = "&" -> <<Ch("&amp;")>>
            [] Head(text) = "<" -> <<Ch("&lt;")>>
            [] Head(text) = ">" -> <<Ch("&gt;")>>
            [] OTHER            -> <<TokOf(Head(text))>>)
             \o EscapeCdata(Tail(text))

\* _escape_attrib: the value of an attribute as tostring writes it
RECURSIVE EscapeAttrib(_)
EscapeAttrib(val) ==
    IF val = <<>> THEN <<>>
    ELSE (CASE Head(val) = "&"  -> Str("&amp;")
            [] Head(val) = "<"  -> Str("&lt;")
            [] Head(val) = ">"  -> Str("&gt;")
            [] Head(val) = "\"" -> Str("&quot;")
            [] Head(val) = "\r" -> Str("&#13;")
            [] Head(val) = "\n" -> Str("&#10;")
            [] Head(val) = "\t" -> Str("&#09;")
            [] OTHER            -> <<Head(val)>>)
             \o EscapeAttrib(Tail(val))

RECURSIVE tostring(_)
RECURSIVE KidsToString(_)
\* ET.tostring(element, encoding='unicode'): every element carries its own
\* namespace, and the tail of the element is part of the result
tostring(node) ==
    <<Open(node.tag, IF node.ns = "" THEN "NONE" ELSE node.ns,
           [m \in 1..Len(node.a) |-> Attr(node.a[m].n, EscapeAttrib(node.a[m].val))])>>
        \o EscapeCdata(node.text) \o KidsToString(node.kids)
        \o <<Close(node.tag)>> \o EscapeCdata(node.tail)
KidsToString(ks) ==
    IF ks = <<>> THEN <<>> ELSE tostring(Head(ks)) \o KidsToString(Tail(ks))

----------------------------------------------------------------------------
(* datetime.fromisoformat(s).strftime('%Y-%m-%d %H:%M:%S') of line 28, as    *)
(* CPython 3.11 computes it on the UTF-8 bytes of the str.  Positions       *)
(* count from 1; where the C code keeps an offset from 0 the definition     *)
(* says so.                                                                *)

RECURSIVE NumVal(_)
NumVal(s) ==
    IF s = <<>> THEN 0
    ELSE NumVal(SubSeq(s, 1, Len(s) - 1)) * 10 + DigitVal(s[Len(s)])

RECURSIVE Decimal(_)
Decimal(n) ==
    IF n < 10 THEN <<Digits[n + 1]>>
    ELSE Decimal(n \div 10) \o <<Digits[(n % 10) + 1]>>

\* %m, %d, %H, %M, %S
TwoDigits(n) == <<Digits[(n \div 10) + 1], Digits[(n % 10) + 1]>>

IsLeap(y) == y % 4 = 0 /\ (y % 100 # 0 \/ y % 400 = 0)

DaysInMonth(y, m) ==
    CASE m \in {1, 3, 5, 7, 8, 10, 12} -> 31
      [] m \in {4, 6, 9, 11}           -> 30
      [] OTHER                         -> IF IsLeap(y) THEN 29 ELSE 28

RECURSIVE DaysBeforeMonth(_, _)
DaysBeforeMonth(y, m) ==
    IF m <= 1 THEN 0 ELSE DaysBeforeMonth(y, m - 1) + DaysInMonth(y, m - 1)

DaysBeforeYear(y) ==
    LET z == y - 1 IN z * 365 + (z \div 4) - (z \div 100) + (z \div 400)

\* the proleptic Gregorian ordinal of a date, 1 for 0001-01-01
YmdToOrd(y, m, d) == DaysBeforeYear(y) + DaysBeforeMonth(y, m) + d

\* 0 for Monday
Weekday(y, m, d) == (YmdToOrd(y, m, d) + 6) % 7

\* the ordinal of the Monday that starts ISO week 1 of the year
IsoWeek1Monday(y) ==
    LET first_day == YmdToOrd(y, 1, 1)
        first_weekday == (first_day + 6) % 7
        week1_monday == first_day - first_weekday
    IN  IF first_weekday > 3 THEN week1_monday + 7 ELSE week1_monday

NoDate == [ok |-> FALSE, y |-> 0, m |-> 0, d |-> 0]

\* the date of an ordinal >= 1
OrdToYmd(ordinal) ==
    LET n0 == ordinal - 1
        n400 == n0 \div 146097
        r400 == n0 % 146097
        n100 == r400 \div 36524
        r100 == r400 % 36524
        n4 == r100 \div 1461
        r4 == r100 % 1461
        n1 == r4 \div 365
        n == r4 % 365
        year == n400 * 400 + 1 + n100 * 100 + n4 * 4 + n1
        month == CHOOSE m \in 1..12 :
                     /\ DaysBeforeMonth(year, m) <= n
                     /\ n < DaysBeforeMonth(year, m) + DaysInMonth(year, m)
    IN  IF n1 = 4 \/ n100 = 4
        THEN [ok |-> TRUE, y |-> year - 1, m |-> 12, d |-> 31]
        ELSE [ok |-> TRUE, y |-> year, m |-> month,
              d |-> n - DaysBeforeMonth(year, month) + 1]

\* the date of day iso_day of week iso_week of an ISO year; year 0 has no
\* week 53, and its other weeks give a date that the datetime constructor
\* rejects
IsoToYmd(iso_year, iso_week, iso_day) ==
    LET first_weekday == Weekday(iso_year, 1, 1)
        long_year == first_weekday = 3 \/ (first_weekday = 2 /\ IsLeap(iso_year))
    IN  IF (iso_week <= 0 \/ iso_week >= 53)
              /\ ~(iso_week = 53 /\ iso_year >= 1 /\ long_year)
        THEN NoDate
        ELSE IF iso_day <= 0 \/ iso_day >= 8 THEN NoDate
        ELSE IF iso_year < 1 THEN [ok |-> TRUE, y |-> 0, m |-> 0, d |-> 0]
        ELSE OrdToYmd(IsoWeek1Monday(iso_year) + (iso_week - 1) * 7 + iso_day - 1)

\* time_created.replace('Z', '+00:00')
RECURSIVE ReplaceZ(_)
ReplaceZ(s) ==
    IF s = <<>> THEN <<>>
    ELSE (IF Head(s) = "Z" THEN <<"+", "0", "0", ":", "0", "0">> ELSE <<Head(s)>>)
             \o ReplaceZ(Tail(s))

\* the number of UTF-8 bytes of a character
Utf8Width(c) ==
    IF ~IsName(c) \/ CodePoint(c) < 128 THEN 1
    ELSE IF CodePoint(c) < 2048 THEN 2
    ELSE IF CodePoint(c) < 65536 THEN 3
    ELSE 4

\* the UTF-8 bytes of a str: an ASCII character is its own byte, another
\* character a lead byte and its continuation bytes
RECURSIVE Utf8(_)
Utf8(s) ==
    IF s = <<>> THEN <<>>
    ELSE (CASE Utf8Width(Head(s)) = 1 -> <<Head(s)>>
            [] Utf8Width(Head(s)) = 2 -> <<"lead2", "cont">>
            [] Utf8Width(Head(s)) = 3 -> <<"lead3", "cont", "cont">>
            [] OTHER                  -> <<"lead4", "cont", "cont", "cont">>)
             \o Utf8(Tail(s))

\* the byte at position p; "" is the NUL that ends the C string
At(s, p) == IF p \in 1..Len(s) THEN s[p] ELSE ""

\* parse_digits: the number of the n digits from position p, and the position
\* after them
ParseDigits(s, p, n) ==
    IF \A i \in p..(p + n - 1) : IsDigit(At(s, i))
    THEN [ok |-> TRUE, val |-> NumVal(SubSeq(s, p, p + n - 1)), p |-> p + n]
    ELSE [ok |-> FALSE, val |-> 0, p |-> p]

\* _find_isoformat_datetime_separator: the offset from 0 of the character
\* between date and time, -1 for none
FindSeparator(s) ==
    LET len == Len(s)
        nondigit == {i \in 7..(len - 1) : ~IsDigit(s[i + 1])}
        idx == IF nondigit = {} THEN (IF len < 7 THEN 7 ELSE len)
               ELSE CHOOSE i \in nondigit : \A j \in nondigit : i <= j
    IN  IF len = 7 THEN 7
        ELSE IF At(s, 5) = "-"
        THEN IF At(s, 6) = "W"
             THEN IF len < 8 THEN -1
                  ELSE IF len > 8 /\ At(s, 9) = "-"
                  THEN IF len = 9 THEN -1
                       ELSE IF len > 10 /\ IsDigit(At(s, 11)) THEN 8
                       ELSE 10
                  ELSE 8
             ELSE 10
        ELSE IF At(s, 5) = "W"
        THEN IF idx < 9 THEN idx
             ELSE IF idx % 2 = 0 THEN 7
             ELSE 8
        ELSE 8

\* parse_isoformat_date on the first len characters: YYYY-MM-DD, YYYYMMDD,
\* YYYY-Www[-D] or YYYYWww[D]
ParseIsoDate(s, len) ==
    LET year == ParseDigits(s, 1, 4)
        uses_separator == At(s, 5) = "-"
        p == IF uses_separator THEN 6 ELSE 5
        week == ParseDigits(s, p + 1, 2)
        has_day == week.p - 1 < len
        pd == IF uses_separator THEN week.p + 1 ELSE week.p
        iso_day == ParseDigits(s, pd, 1)
        month == ParseDigits(s, p, 2)
        pm == IF uses_separator THEN month.p + 1 ELSE month.p
        day == ParseDigits(s, pm, 2)
    IN  IF ~year.ok THEN NoDate
        ELSE IF At(s, p) = "W"
        THEN IF ~week.ok THEN NoDate
             ELSE IF ~has_day THEN IsoToYmd(year.val, week.val, 1)
             ELSE IF uses_separator /\ At(s, week.p) # "-" THEN NoDate
             ELSE IF ~iso_day.ok THEN NoDate
             ELSE IsoToYmd(year.val, week.val, iso_day.val)
        ELSE IF ~month.ok THEN NoDate
        ELSE IF uses_separator /\ At(s, month.p) # "-" THEN NoDate
        ELSE IF ~day.ok THEN NoDate
        ELSE [ok |-> TRUE, y |-> year.val, m |-> month.val, d |-> day.val]

RECURSIVE SkipDigits(_, _)
SkipDigits(s, p) == IF IsDigit(At(s, p)) THEN SkipDigits(s, p + 1) ELSE p

\* the fraction of parse_hh_mm_ss_ff: up to six digits are read, further
\* digits skipped; rv is 1 when the string goes on after them
ParseFraction(s, p, p_end, vals) ==
    LET len_remains == p_end - p
        to_parse == IF len_remains >= 6 THEN 6 ELSE len_remains
        digits == ParseDigits(s, p, to_parse)
    IN  IF ~digits.ok THEN [rv |-> -3, vals |-> vals]
        ELSE [rv |-> IF At(s, SkipDigits(s, digits.p)) # "" THEN 1 ELSE 0,
              vals |-> vals]

RECURSIVE ParseHhMmSs(_, _, _, _, _, _)
\* parse_hh_mm_ss_ff after the character c that follows the two digits of
\* component i; p is the position after c
AfterChar(s, p, p_end, i, has_separator, vals, c) ==
    IF p >= p_end THEN [rv |-> IF c # "" THEN 1 ELSE 0, vals |-> vals]
    ELSE IF has_separator /\ c = ":"
    THEN ParseHhMmSs(s, p, p_end, i + 1, has_separator, vals)
    ELSE IF c \in {".", ","} THEN ParseFraction(s, p, p_end, vals)
    ELSE IF ~has_separator
    THEN ParseHhMmSs(s, p - 1, p_end, i + 1, has_separator, vals)
    ELSE [rv |-> -4, vals |-> vals]

\* parse_hh_mm_ss_ff after the two digits of component i: the character
\* after the hour says whether ':' separates the components
AfterDigits(s, p_end, i, has_separator, vals, digits) ==
    IF ~digits.ok THEN [rv |-> -3, vals |-> vals]
    ELSE AfterChar(s, digits.p + 1, p_end, i,
                   IF i = 0 THEN At(s, digits.p) = ":" ELSE has_separator,
                   [vals EXCEPT ![i + 1] = digits.val],
                   At(s, digits.p))

\* the loop of parse_hh_mm_ss_ff over hour, minute and second (i = 0, 1, 2),
\* and the fraction after it
ParseHhMmSs(s, p, p_end, i, has_separator, vals) ==
    IF i = 3 THEN ParseFraction(s, p, p_end, vals)
    ELSE AfterDigits(s, p_end, i, has_separator, vals, ParseDigits(s, p, 2))

\* parse_hh_mm_ss_ff on the characters from p up to p_end: HH[:MM[:SS[.f*]]]
\* or HH[MM[SS[.f*]]]; rv < 0 is an error, rv = 1 says characters are left
parse_hh_mm_ss_ff(s, p, p_end) == ParseHhMmSs(s, p, p_end, 0, TRUE, <<0, 0, 0>>)

NoTime == [ok |-> FALSE, h |-> 0, m |-> 0, s |-> 0, tz |-> 0]

\* the position of the first 'Z', '+' or '-' from p, p_end for none
TzinfoPos(s, p) ==
    LET marks == {i \in p..Len(s) : s[i] \in {"Z", "+", "-"}}
    IN  IF marks # {} THEN CHOOSE i \in marks : \A j \in marks : i <= j
        ELSE IF p + 1 < Len(s) + 1 THEN Len(s) + 1
        ELSE p + 1

\* the result of parse_isoformat_time from what parse_hh_mm_ss_ff gave for the
\* time and for the offset; tz is the offset in seconds, without sign
TimeAndOffset(s, tzinfo_pos, time, tz) ==
    IF time.rv < 0 THEN NoTime
    ELSE IF tzinfo_pos = Len(s) + 1
    THEN (IF time.rv = 1 THEN NoTime
          ELSE [ok |-> TRUE, h |-> time.vals[1], m |-> time.vals[2],
                s |-> time.vals[3], tz |-> 0])
    ELSE IF At(s, tzinfo_pos) = "Z"
    THEN (IF At(s, tzinfo_pos + 1) # "" THEN NoTime
          ELSE [ok |-> TRUE, h |-> time.vals[1], m |-> time.vals[2],
                s |-> time.vals[3], tz |-> 0])
    ELSE IF tz.rv # 0 THEN NoTime
    ELSE [ok |-> TRUE, h |-> time.vals[1], m |-> time.vals[2], s |-> time.vals[3],
          tz |-> tz.vals[1] * 3600 + tz.vals[2] * 60 + tz.vals[3]]

\* the time up to tzinfo_pos, and the offset after it
TimeUpTo(s, p, tzinfo_pos) ==
    TimeAndOffset(s, tzinfo_pos,
                  parse_hh_mm_ss_ff(s, p, tzinfo_pos),
                  parse_hh_mm_ss_ff(s, tzinfo_pos + 1, Len(s) + 1))

\* parse_isoformat_time on the characters from p: the time up to the first
\* 'Z', '+' or '-', then the offset; what the time leaves unread is an error
\* only when no offset follows
parse_isoformat_time(s, p) == TimeUpTo(s, p, TzinfoPos(s, p))

\* the number of bytes of the character between date and time
SeparatorWidth(b) ==
    IF b = "lead4" THEN 4
    ELSE IF b = "lead3" THEN 3
    ELSE IF b \in {"lead2", "cont"} THEN 2
    ELSE 1

\* strftime('%Y-%m-%d %H:%M:%S') of the datetime that the constructor builds
\* from the parsed date and time: [ok, s, invalid].  ~ok is ValueError:
\* "Invalid isoformat string: " and the repr of the string when the date or
\* the time did not parse (invalid), a message without the string when a
\* component is out of range or the offset is a day or more
Strftime(date, time) ==
    IF ~(date.ok /\ time.ok) THEN [ok |-> FALSE, s |-> <<>>, invalid |-> TRUE]
    ELSE IF /\ time.tz < 24 * 3600
       /\ date.y >= 1 /\ date.y <= 9999 /\ date.m >= 1 /\ date.m <= 12
       /\ date.d >= 1 /\ date.d <= DaysInMonth(date.y, date.m)
       /\ time.h <= 23 /\ time.m <= 59 /\ time.s <= 59
    THEN [ok |-> TRUE,
          s |-> Decimal(date.y) \o <<"-">> \o TwoDigits(date.m) \o <<"-">>
                  \o TwoDigits(date.d) \o <<" ">> \o TwoDigits(time.h) \o <<":">>
                  \o TwoDigits(time.m) \o <<":">> \o TwoDigits(time.s),
          invalid |-> FALSE]
    ELSE [ok |-> FALSE, s |-> <<>>, invalid |-> FALSE]

\* datetime.fromisoformat on the bytes s, whose date ends at the offset
\* separator_location from 0: the character there is skipped whatever it is
FromIsoBytes(s, separator_location) ==
    IF Len(s) < 7 \/ separator_location < 0
    THEN [ok |-> FALSE, s |-> <<>>, invalid |-> TRUE]
    ELSE Strftime(ParseIsoDate(s, separator_location),
                  IF Len(s) > separator_location
                  THEN parse_isoformat_time(s,
                           separator_location + 1
                               + SeparatorWidth(At(s, separator_location + 1)))
                  ELSE [NoTime EXCEPT !.ok = TRUE])

FormatBytes(s) == FromIsoBytes(s, FindSeparator(s))

\* datetime.fromisoformat(str).strftime('%Y-%m-%d %H:%M:%S'): [ok, s,
\* invalid]; ~ok is ValueError.  The offset is parsed and dropped, never
\* applied.
FormatIso(str) == FormatBytes(Utf8(str))

----------------------------------------------------------------------------
(* Lines 6-50: parse_event_xml *)

\* a Python value that is a str or None
PyStr(s) == [none |-> FALSE, s |-> s]

PyNone == [none |-> TRUE, s |-> <<>>]

\* DictSet that keeps the first value of a name (setdefault)
DictSetFirst(d, name, value) ==
    IF name \in DOMAIN d THEN d
    ELSE [key \in (DOMAIN d) \cup {name} |-> IF key = name THEN value ELSE d[key]]

\* data_dict[name] = value
DictSet(d, name, value) ==
    [key \in (DOMAIN d) \cup {name} |-> IF key = name THEN value ELSE d[key]]

\* lines 32-37: the loop over the Data elements; a key is <<name>>, or <<>>
\* for None
RECURSIVE BuildDict(_, _)
BuildDict(datas, d) ==
    IF datas = <<>> THEN d
    ELSE LET data == Head(datas)
             name == Get(data, "Name")
             value == data.text
         IN  BuildDict(Tail(datas), DictSet(d, name, value))

\* data_dict.get(key, '')
DictGet(d, key) == IF <<key>> \in DOMAIN d THEN d[<<key>>] ELSE <<>>

\* an exception of class e: text is str(e) where it repeats the input, <<>>
\* for the messages that are fixed ASCII text
Raise(e) == [ok |-> FALSE, exc |-> e, csv_data |-> <<>>, text |-> <<>>]

\* lines 40-48
MapToCsv(eventdate, computer, data_dict) ==
    [eventdate          |-> PyStr(eventdate),
     hostname           |-> IF computer.text = <<>> THEN PyNone ELSE PyStr(computer.text),
     user               |-> PyStr(DictGet(data_dict, Str("SubjectUserName"))),
     processid          |-> PyStr(DictGet(data_dict, Str("NewProcessId"))),
     image              |-> PyStr(DictGet(data_dict, Str("NewProcessName"))),
     processcommandline |-> PyStr(DictGet(data_dict, Str("CommandLine"))),
     hashes             |-> PyStr(<<>>)]

\* parse_event_xml that degrades a malformed timestamp to an empty eventdate
parse_event_xml_EmptyDate(s) ==
    LET doc == fromstring(s)
        root == doc.root
        system == Find(root, EVT, "System")
        tc == Find(system[1], EVT, "TimeCreated")
        time_created == Get(tc[1], "SystemTime")
        computer == Find(system[1], EVT, "Computer")
        eventdate == FormatIso(ReplaceZ(time_created[1]))
        event_data == Find(root, EVT, "EventData")
    IN  IF ~doc.ok THEN Raise("ParseError")
        ELSE IF system = <<>> THEN Raise("AttributeError")
        ELSE IF tc = <<>> THEN Raise("AttributeError")
        ELSE IF computer = <<>> THEN Raise("AttributeError")
        ELSE IF time_created = <<>> THEN Raise("AttributeError")
        ELSE IF event_data = <<>> THEN Raise("AttributeError")
        ELSE [ok |-> TRUE, exc |-> "",
              csv_data |-> MapToCsv(IF eventdate.ok THEN eventdate.s ELSE <<>>,
                                    computer[1],
                                    BuildDict(FindAll(event_data[1], EVT, "Data"),
                                              <<>>))]

\* lines 20-50 of parse_event_xml, on what ET.fromstring gave at line 17.  A
\* SystemTime that datetime.fromisoformat rejects raises ValueError at line
\* 28; its text repeats the string when the string is not of the format.
parse_event_root(doc) ==
    LET root == doc.root
        system == Find(root, EVT, "System")
        tc == Find(system[1], EVT, "TimeCreated")
        time_created == Get(tc[1], "SystemTime")
        computer == Find(system[1], EVT, "Computer")
        eventdate == FormatIso(ReplaceZ(time_created[1]))
        event_data == Find(root, EVT, "EventData")
    IN  IF ~doc.ok THEN Raise("ParseError")
        ELSE IF system = <<>> THEN Raise("AttributeError")
        ELSE IF tc = <<>> THEN Raise("AttributeError")
        ELSE IF computer = <<>> THEN Raise("AttributeError")
        ELSE IF time_created = <<>> THEN Raise("AttributeError")
        ELSE IF ~eventdate.ok
        THEN [Raise("ValueError") EXCEPT
                 !.text = IF eventdate.invalid
                          THEN Str("Invalid isoformat string: ")
                                   \o Repr(ReplaceZ(time_created[1]))
                          ELSE <<>>]
        ELSE IF event_data = <<>> THEN Raise("AttributeError")
        ELSE [ok |-> TRUE, exc |-> "",
              csv_data |-> MapToCsv(eventdate.s, computer[1],
                                    BuildDict(FindAll(event_data[1], EVT, "Data"),
                                              <<>>))]

\* lines 6-50
parse_event_xml(s) == parse_event_root(fromstring(s))

----------------------------------------------------------------------------
(* Lines 82-95: the recovery of the first Event of a wrapper *)

Recover(s) ==
    IF StartsWithEventTag(strip(s)) THEN s
    ELSE LET doc == fromstring(s)
             namespaced == FindAllDesc(doc.root, EVT, "Event")
             events == IF namespaced = <<>>
                       THEN FindAllDesc(doc.root, "", "Event")
                       ELSE namespaced
         IN  IF doc.ok /\ events # <<>> THEN tostring(events[1]) ELSE s

----------------------------------------------------------------------------
(* Lines 100-106: csv.DictWriter *)

fieldnames ==
    <<"eventdate", "hostname", "user", "processid", "image", "processcommandline",
      "hashes">>

\* the characters that make the writer quote a field (QUOTE_MINIMAL)
NeedsQuote(s) == \E i \in 1..Len(s) : s[i] \in {",", "\"", "\n", "\r"}

\* a written field: its text, and whether the writer quoted it
Field(s) == [q |-> NeedsQuote(s), s |-> s]

\* writer.writeheader()
HeaderRow == [i \in 1..Len(fieldnames) |-> Field(Str(fieldnames[i]))]

\* writer.writerow(rowdict): one field per fieldname, None written as ''
DataRow(rowdict) ==
    [i \in 1..Len(fieldnames) |->
        LET val == rowdict[fieldnames[i]]
        IN  Field(IF val.none THEN <<>> ELSE val.s)]

\* WriteRows without writer.writeheader()
WriteRowsNoHeader(rowdict) == <<DataRow(rowdict)>>

WriteRows(rowdict) == <<HeaderRow, DataRow(rowdict)>>

----------------------------------------------------------------------------
(* Lines 66-98 as one function of the text read: [ok, exc, csv_data];        *)
(* exc "SystemExit" is the sys.exit(1) of the empty check                   *)

Convert(text) ==
    IF strip(text) = <<>> THEN Raise("SystemExit")
    ELSE parse_event_xml(Recover(join(CleanLines(split(text)))))

----------------------------------------------------------------------------
(* The input documents *)

TsUtc == Str("2024-01-15T10:30:00Z")

TsOffset == Str("2024-01-15T10:30:00+05:30")

TsTabSep == Str("2024-01-15\t10:30")

\* SystemTime values: well-formed ones in the forms fromisoformat takes, dates
\* and hours out of range, text that is no timestamp, and separators of one,
\* two and four bytes
TsSamples ==
    {TsUtc,
     Str("2024-01-15T10:30:00.123456789Z"),
     TsOffset,
     Str("2024-01-15"),
     Str("2023-12-31 23:59:59"),
     Str("2023-02-29T10:30:00Z"),
     Str("2024-01-15T24:30:00Z"),
     Str("garbage"),
     Str("20240115T103000Z"),
     Str("2024-W03-1"),
     Str("2024-01-15T10:30:00 Z"),
     Str("2024-01-15T10:30:00."),
     Str("2024-01-15T10:30:00.Z"),
     Str("2024-01-15") \o <<"\\xa0">> \o Str("10:30"),
     Str("2024-01-15") \o <<"U+00E9">> \o Str("10:30"),
     Str("2024-01-15") \o <<"U+1F600">> \o Str("10:30"),
     Str("2024-01-15 10:30") \o <<"U+00E9">> \o Str("+05:30"),
     Str("2024-13-15") \o <<"U+00E9">> \o Str("10:30"),
     Str("2024") \o <<"U+0378">>,
     TsTabSep,
     Str("2024-01-15") \o <<"\\x0c">> \o Str("10:30"),
     Str("2024-01-15\n 10:30"),
     Str("2024-01-15&#x54;10:30"),
     <<>>}

\* <TimeCreated .../> on a line of its own: none, no SystemTime, SystemTime=ts
TcNoAttr == <<<<Open("TimeCreated", "", NoAttrs), Close("TimeCreated")>>>>

Tc(t) == <<<<Open("TimeCreated", "", <<Attr("SystemTime", t)>>), Close("TimeCreated")>>>>

\* <Computer>text</Computer> on a line of its own
Computer(text) == <<<<Open("Computer", "", NoAttrs)>> \o text \o <<Close("Computer")>>>>

HostA == <<Ch("WIN-A")>>

System(tc, computer) ==
    <<<<Open("System", "", NoAttrs)>>>> \o tc \o computer \o <<<<Close("System")>>>>

\* <Data Name="name">text</Data>; name <<>> is a Data without Name
Data(name, text) ==
    <<Open("Data", "", IF name = <<>> THEN NoAttrs ELSE <<Attr("Name", name)>>)>>
        \o text \o <<Close("Data")>>

EventData(datas) ==
    <<<<Open("EventData", "", NoAttrs)>>>> \o datas \o <<<<Close("EventData")>>>>

\* the lines of an <Event xmlns=x> element
EventLines(x, system, eventData) ==
    <<<<Open("Event", x, NoAttrs)>>>> \o system \o eventData \o <<<<Close("Event")>>>>

\* the lines of a wrapper <name xmlns=x> around events
WrapLines(name, x, inner) ==
    <<<<Open(name, x, NoAttrs)>>>> \o inner \o <<<<Close(name)>>>>

SeqsUpTo(S, n) == UNION {[1..m -> S] : m \in 0..n}

CmdData == <<Data(<<"CommandLine">>, <<Ch("cmd.exe"), SPACE, Ch("/c")>>)>>

DataSamples ==
    {Data(<<"SubjectUserName">>, <<Ch("alice")>>),
     Data(<<"SubjectUserName">>, <<Ch("bob")>>),
     Data(<<"SubjectUserName">>, <<>>),
     Data(<<"NewProcessId">>, <<Ch("0x1a4")>>),
     Data(<<"NewProcessName">>, <<Ch("C:\\cmd.exe")>>),
     Data(<<"CommandLine">>, <<Ch("a"), Ch(","), Ch("b")>>),
     Data(<<"TargetUserName">>, <<Ch("carol")>>),
     Data(<<>>, <<Ch("anon")>>)}

\* one valid event, varying the Data elements of EventData
DataDocs ==
    {join(EventLines(EVT, System(Tc(TsUtc), Computer(HostA)), EventData(ds))) :
        ds \in SeqsUpTo(DataSamples, MaxData)}

\* one event, varying the timestamp
TsDocs ==
    {join(EventLines(EVT, System(tc, Computer(HostA)), EventData(CmdData))) :
        tc \in {<<>>, TcNoAttr} \cup {Tc(t) : t \in TsSamples}}

\* one event, varying which parts exist and the namespace of the root
ShapeDocs ==
    {join(EventLines(x, sys, ed)) :
        x \in {EVT, "", "OTHER"},
        sys \in {<<>>} \cup
                {System(Tc(TsUtc), c) : c \in {<<>>, Computer(<<>>), Computer(HostA)}},
        ed \in {<<>>, EventData(<<>>), EventData(CmdData)}}

\* the events a wrapper holds: two valid ones, one without namespace, and a
\* valid one followed by character data
EventA == EventLines(EVT, System(Tc(TsUtc), Computer(HostA)), EventData(CmdData))

EventB == EventLines(EVT, System(Tc(TsOffset), Computer(<<Ch("WIN-B")>>)), EventData(<<>>))

EventAmp ==
    EventLines(EVT, System(Tc(TsTabSep), Computer(HostA)),
               EventData(<<Data(<<"CommandLine">>, <<Ch("a&lt;b&#13;c")>>)>>))

EventSamples ==
    {EventA, EventB,
     EventLines("", System(Tc(TsUtc), Computer(HostA)), EventData(CmdData)),
     EventA \o <<<<Ch("junk")>>>>}

\* the text with "\r\n" for every "\n"
RECURSIVE Crlf(_)
Crlf(s) ==
    IF s = <<>> THEN <<>>
    ELSE (IF Head(s) = NL THEN <<Sp("\r"), NL>> ELSE <<Head(s)>>) \o Crlf(Tail(s))

WrapDocs ==
    {join(WrapLines(w[1], w[2], Concat(evs))) :
        w \in {<<"Logs", "">>, <<"Logs", EVT>>, <<"Events", "">>},
        evs \in SeqsUpTo(EventSamples, MaxEvents)}

\* a document with an XML declaration, text that is not well formed, text
\* that is white space to Python only, roots whose names begin with "Event",
\* "\r\n" line ends, a byte order mark, and references
OtherDocs ==
    {<<Decl, NL>> \o join(EventA),
     join(WrapLines("EventLog", "", EventA)),
     <<Bad, Ch("Event")>>,
     Crlf(join(EventA)),
     Crlf(join(WrapLines("Logs", "", EventB))),
     <<Ch("U+FEFF")>> \o join(EventA),
     join(EventAmp),
     join(WrapLines("Logs", "", EventAmp)),
     <<Decl, NL>> \o join(WrapLines("Logs", "", EventB \o EventA)),
     join(WrapLines("Logs", "", <<<<Ch("none")>>>>)),
     <<Open("Event", EVT, NoAttrs)>>,
     <<Open("Event", EVT, NoAttrs), Close("System")>>,
     join(EventA) \o <<NL>> \o join(EventB),
     <<Ch("hello")>>,
     <<Bad, Ch("Logs")>>,
     <<>>,
     <<SPACE, NL, Sp("\t")>>,
     <<NBSP, NL, Sp("\\x0c")>>,
     <<NL, DASH, SPACE, NL>>,
     join(EventA) \o <<NBSP>>,
     <<Open("Event", EVT, NoAttrs), Sp("\\x0c"), Close("Event")>>}

\* a valid event whose character data spans lines that begin with whitespace
\* or with "- "
TextLineDocs ==
    {join(EventLines(EVT, System(Tc(TsUtc), Computer(HostA)),
                     EventData(<<Data(<<"CommandLine">>, text)>>))) :
        text \in {<<Ch("cmd"), NL, Ch("arg")>>,
                  <<Ch("cmd"), NL, SPACE, Ch("arg")>>,
                  <<Ch("cmd"), NL, DASH, SPACE, Ch("arg")>>,
                  <<Ch("cmd"), NL, DASH, Ch("arg")>>,
                  <<Ch("cmd"), NL, NBSP, Ch("arg")>>,
                  <<Ch("cmd"), NBSP, Ch("arg")>>,
                  <<Ch("cmd"), Sp("\r"), Ch("arg")>>,
                  <<Ch("caf"), Ch("U+00E9"), Ch(","), Ch("a&amp;b")>>,
                  <<Ch("a&b")>>,
                  <<Ch("a]]>b")>>,
                  <<DASH, SPACE, Ch("arg")>>}}

BaseDocs == TsDocs \cup ShapeDocs \cup OtherDocs \cup TextLineDocs

\* what a decoration puts in front of a line: whitespace, then "- " or nothing
Prefixes ==
    {w \o m : w \in {[i \in 1..n |-> SPACE] : n \in 0..MaxIndent}
                        \cup {<<Sp("\t")>>, <<NBSP>>},
              m \in {<<>>, <<DASH, SPACE>>}}

\* every line of doc behind the same prefix
Decorate(doc, prefix) ==
    LET lines == split(doc)
    IN  join([i \in 1..Len(lines) |-> prefix \o lines[i]])

\* only the lines of odd index behind the prefix
DecorateOdd(doc, prefix) ==
    LET lines == split(doc)
    IN  join([i \in 1..Len(lines) |-> IF i % 2 = 1 THEN prefix \o lines[i] ELSE lines[i]])

\* every document behind every prefix and behind "- " on every other line; the
\* wrappers as they are and behind "- "; the Data documents as they are; and
\* the documents of several lines of text behind a carriage return, which the
\* read turns into a line of its own
Inputs ==
    {[content |-> Decorate(d, p), undecorated |-> d] : d \in BaseDocs, p \in Prefixes}
    \cup {[content |-> DecorateOdd(d, <<DASH, SPACE>>), undecorated |-> d] : d \in BaseDocs}
    \cup {[content |-> Decorate(d, p), undecorated |-> d] :
              d \in WrapDocs, p \in {<<>>, <<DASH, SPACE>>}}
    \cup {[content |-> d, undecorated |-> d] : d \in DataDocs}
    \cup {[content |-> Decorate(d, <<Sp("\r")>>), undecorated |-> d] : d \in TextLineDocs}

----------------------------------------------------------------------------
(* The run of xml_to_csv(input_file, output_file) from __main__ *)

NoFile == [exists |-> FALSE, rows |-> <<>>]

\* a file left at the output path by an earlier run
OldFile == [exists |-> TRUE, rows |-> <<<<Field(<<"old">>)>>>>]

NoRecord == <<>>

Init ==
    /\ \E inp \in Inputs :
          /\ inKind = "text"
          /\ inContent = inp.content
          /\ undecorated = inp.undecorated
       \/ /\ inKind \in {"missing", "notutf8"}
          /\ inContent = <<>>
          /\ undecorated = <<>>
    /\ \/ outDirOk = TRUE /\ outFile \in {NoFile, OldFile}
       \/ outDirOk = FALSE /\ outFile = NoFile
    /\ consoleOk \in BOOLEAN
    /\ pc = "read"
    /\ xml_string = <<>>
    /\ cleaned_lines = <<>>
    /\ csv_data = NoRecord
    /\ exc = ""
    /\ excText = <<>>
    /\ message = ""
    /\ exitStatus = -1

\* lines 62-63: open and read the input
ReadInput ==
    /\ pc = "read"
    /\ CASE inKind = "missing" ->
              /\ pc' = "except" /\ exc' = "FileNotFoundError"
              /\ UNCHANGED xml_string
         [] inKind = "notutf8" ->
              /\ pc' = "except" /\ exc' = "UnicodeDecodeError"
              /\ UNCHANGED xml_string
         [] OTHER ->
              /\ pc' = "check_empty" /\ xml_string' = ReadText(inContent)
              /\ UNCHANGED exc
    /\ UNCHANGED <<inKind, inContent, undecorated, outDirOk, consoleOk, outFile, cleaned_lines,
                   csv_data, excText, message, exitStatus>>

\* the argument of each sys.exit, and the line printed before it
StatusEmpty == 1

StatusNotFound == 1

StatusParse == 1

StatusOther == 1

MsgEmpty == "Error: XML file is empty"

MsgNotFound == "Error: File not found"

MsgParse == "Error: Failed to parse XML"

MsgOther == "Error"

\* lines 66-68: sys.exit(1) raises SystemExit, which no handler of
\* xml_to_csv catches
CheckEmpty ==
    /\ pc = "check_empty"
    /\ IF strip(xml_string) = <<>>
       THEN /\ message' = MsgEmpty
            /\ exitStatus' = StatusEmpty
            /\ pc' = "exit"
       ELSE /\ pc' = "cleanup"
            /\ UNCHANGED <<message, exitStatus>>
    /\ UNCHANGED <<inKind, inContent, undecorated, outDirOk, consoleOk, outFile, xml_string,
                   cleaned_lines, csv_data, exc, excText>>

\* lines 72-80
Cleanup ==
    /\ pc = "cleanup"
    /\ cleaned_lines' = CleanLines(split(xml_string))
    /\ xml_string' = join(cleaned_lines')
    /\ pc' = "recover"
    /\ UNCHANGED <<inKind, inContent, undecorated, outDirOk, consoleOk, outFile, csv_data, exc,
                   excText, message, exitStatus>>

\* lines 83-95
RecoverEvent ==
    /\ pc = "recover"
    /\ xml_string' = Recover(xml_string)
    /\ pc' = "parse"
    /\ UNCHANGED <<inKind, inContent, undecorated, outDirOk, consoleOk, outFile, cleaned_lines,
                   csv_data, exc, excText, message, exitStatus>>

\* line 98
ParseEvent ==
    /\ pc = "parse"
    /\ LET r == parse_event_xml(xml_string)
       IN  IF r.ok
           THEN /\ csv_data' = r.csv_data
                /\ pc' = "write"
                /\ UNCHANGED <<exc, excText>>
           ELSE /\ exc' = r.exc
                /\ excText' = r.text
                /\ pc' = "except"
                /\ UNCHANGED csv_data
    /\ UNCHANGED <<inKind, inContent, undecorated, outDirOk, consoleOk, outFile, xml_string,
                   cleaned_lines, message, exitStatus>>

\* lines 103-106: open(output_csv, 'w') creates or truncates the file
WriteCsv ==
    /\ pc = "write"
    /\ IF outDirOk
       THEN /\ outFile' = [exists |-> TRUE, rows |-> WriteRows(csv_data)]
            /\ pc' = "report"
            /\ UNCHANGED exc
       ELSE /\ exc' = "FileNotFoundError"
            /\ pc' = "except"
            /\ UNCHANGED outFile
    /\ UNCHANGED <<inKind, inContent, undecorated, outDirOk, consoleOk, xml_string, cleaned_lines,
                   csv_data, excText, message, exitStatus>>

MsgCreated == "\\u2713 CSV file created"

\* sys.stdout can encode text
CanPrint(text) == consoleOk \/ \A i \in 1..Len(text) : CodePoint(text[i]) < 128

\* lines 108-113, and the end of __main__: the print of line 108 raises
\* UnicodeEncodeError when sys.stdout cannot encode the check mark
Report ==
    /\ pc = "report"
    /\ IF CanPrint(<<"\\u2713">>)
       THEN /\ message' = MsgCreated
            /\ exitStatus' = 0
            /\ pc' = "done"
            /\ UNCHANGED exc
       ELSE /\ exc' = "UnicodeEncodeError"
            /\ pc' = "except"
            /\ UNCHANGED <<message, exitStatus>>
    /\ UNCHANGED <<inKind, inContent, undecorated, outDirOk, consoleOk, outFile, xml_string,
                   cleaned_lines, csv_data, excText>>

\* print(message and text); sys.exit(status).  When sys.stdout cannot encode
\* text the print raises UnicodeEncodeError inside the handler: nothing is
\* printed, sys.exit is not reached, and the interpreter ends the run on the
\* uncaught exception, with its traceback on stderr and status 1
Exit(msg, status, text) ==
    /\ IF CanPrint(text)
       THEN /\ message' = msg
            /\ exitStatus' = status
            /\ pc' = "exit"
       ELSE /\ exitStatus' = 1
            /\ pc' = "uncaught"
            /\ UNCHANGED message
    /\ UNCHANGED <<inKind, inContent, undecorated, outDirOk, consoleOk, outFile, xml_string,
                   cleaned_lines, csv_data, exc, excText>>

\* lines 115-117: the message names the input path, whichever open failed
HandleFileNotFound ==
    /\ pc = "except" /\ exc = "FileNotFoundError"
    /\ Exit(MsgNotFound, StatusNotFound, <<>>)

\* HandleParseError that prints only the generic line
HandleParseErrorGeneric ==
    /\ pc = "except" /\ exc = "ParseError"
    /\ Exit(MsgOther, StatusParse, <<>>)

\* lines 118-130: the text of a ParseError is ASCII, and the print of line
\* 127 is inside a try of its own
HandleParseError ==
    /\ pc = "except" /\ exc = "ParseError"
    /\ Exit(MsgParse, StatusParse, <<>>)

\* lines 131-133: line 132 prints str(e)
HandleException ==
    /\ pc = "except" /\ exc \notin {"FileNotFoundError", "ParseError"}
    /\ Exit(MsgOther, StatusOther, excText)

Next ==
    \/ ReadInput
    \/ CheckEmpty
    \/ Cleanup
    \/ RecoverEvent
    \/ ParseEvent
    \/ WriteCsv
    \/ Report
    \/ HandleFileNotFound
    \/ HandleParseError
    \/ HandleException

Spec == Init /\ [][Next]_vars

----------------------------------------------------------------------------
(* Vocabulary of the properties *)

\* the run has ended: after line 113, at a sys.exit, or on an exception that
\* a handler raised
Terminal == pc \in {"done", "exit", "uncaught"}

\* the run has ended in a failure
Failed == pc \in {"exit", "uncaught"}

\* a step of the run is enabled: the positions the steps are guarded by, and
\* in "except" the three handlers cover every exception
HasStep ==
    /\ pc \in {"read", "check_empty", "cleanup", "recover", "parse", "write", "report",
               "except"}
    /\ (pc = "except") => (exc # "")

\* the file at the output path is what an earlier run left there, or nothing
Untouched == outFile \in {NoFile, OldFile}

\* this run has written the file at the output path
Written == outFile.exists /\ outFile # OldFile

\* the document parse_event_xml was given
Parsed == fromstring(xml_string)

\* <<e>> for the Computer element parse_event_xml reads, <<>> if there is none
ComputerOf(root) ==
    LET system == Find(root, EVT, "System")
    IN  IF system = <<>> THEN <<>> ELSE Find(system[1], EVT, "Computer")

\* <<t>> for the SystemTime parse_event_xml reads, <<>> if there is none
SystemTimeOf(root) ==
    LET system == Find(root, EVT, "System")
        tc == IF system = <<>> THEN <<>> ELSE Find(system[1], EVT, "TimeCreated")
    IN  IF tc = <<>> THEN <<>> ELSE Get(tc[1], "SystemTime")

\* the Data elements under EventData, in document order
DatasOf(root) ==
    LET event_data == Find(root, EVT, "EventData")
    IN  IF event_data = <<>> THEN <<>> ELSE FindAll(event_data[1], EVT, "Data")

\* an Event-Schema document: well formed, its root the namespaced Event
IsEventDoc(text) ==
    LET doc == fromstring(text)
    IN  doc.ok /\ doc.root.tag = "Event" /\ doc.root.ns = EVT

\* a valid Event-Schema document: System with a well-formed TimeCreated and a
\* Computer, and EventData
IsValidEventDoc(text) ==
    LET root == fromstring(text).root
        t == SystemTimeOf(root)
    IN  /\ IsEventDoc(text)
        /\ t # <<>> /\ FormatIso(ReplaceZ(t[1])).ok
        /\ ComputerOf(root) # <<>>
        /\ Find(root, EVT, "EventData") # <<>>

\* the text of the last Data element named name, '' if there is none
LastDataText(datas, name) ==
    LET named == {i \in 1..Len(datas) : Get(datas[i], "Name") = <<Str(name)>>}
    IN  IF named = {} THEN <<>>
        ELSE datas[CHOOSE i \in named : \A j \in named : j <= i].text

\* line is a line of the undecorated text behind whitespace and/or "- "; the
\* whitespace holds no line break
IsDecoratedLine(line, plain) ==
    \E k \in 0..Len(line) :
        /\ SubSeq(line, k + 1, Len(line)) = plain
        /\ \/ \A i \in 1..k : line[i].k = "sp" /\ line[i].v # "\r"
           \/ /\ k >= 2 /\ line[k - 1] = DASH /\ line[k] = SPACE
              /\ \A i \in 1..(k - 2) : line[i].k = "sp" /\ line[i].v # "\r"

\* the document the input was decorated from, as the program reads it
Plain == ReadText(undecorated)

\* no attribute value of the text spans lines
TagsOnOneLine(text) ==
    \A i \in 1..Len(text) : \A m \in 1..Len(text[i].a) :
        \A j \in 1..Len(text[i].a[m].val) : text[i].a[m].val[j] # "\n"

IsDecoratedForm(text, plain) ==
    LET ls == split(text)
        ps == split(plain)
    IN  Len(ls) = Len(ps) /\ \A i \in 1..Len(ls) : IsDecoratedLine(ls[i], ps[i])

\* no line that begins inside this character data begins with whitespace or "- "
ContinuationLinesClean(text) ==
    LET ls == split(ToToks(text))
    IN  \A i \in 2..Len(ls) :
            /\ ls[i] = <<>> \/ ls[i][1].k # "sp"
            /\ ~StartsWithDashSpace(ls[i])

\* that, for the text of Computer and of every Data element of the document
ValueLinesClean(text) ==
    LET root == fromstring(text).root
        c == ComputerOf(root)
        datas == DatasOf(root)
    IN  /\ c = <<>> \/ ContinuationLinesClean(c[1].text)
        /\ \A i \in 1..Len(datas) : ContinuationLinesClean(datas[i].text)

----------------------------------------------------------------------------
(* Properties *)

\* C1 as stated: a run that ends in a failure condition has created no
\* output file; the file at the output path is what it was before the run.
C1_NoOutputOnFailure ==
    Failed => Untouched

\* C2 as stated: the exit status is non-zero exactly when the run hit a failure
\* (source missing, empty content, parse failure, any other failure); every
\* run ends in exactly one of the two outcomes; and a run that wrote the
\* output file exits with status zero.
C2_ExitStatus ==
    /\ exitStatus \in {-1, 0, 1}
    /\ (exitStatus = -1) <=> ~Terminal
    /\ ~Terminal => HasStep
    /\ Terminal =>
          /\ (exitStatus = 0) <=> (pc = "done")
          /\ (exitStatus # 0) <=>
                 \/ inKind = "missing"
                 \/ inKind = "text" /\ strip(inContent) = <<>>
                 \/ exc # ""
          /\ Written => (exitStatus = 0)

\* C3 as stated: the exit status of a failed run is the status of no other
\* failure condition, so that it identifies the condition.
C3_StatusIdentifiesFailure ==
    Failed =>
        /\ (message # MsgEmpty) => (exitStatus # StatusEmpty)
        /\ (message # MsgNotFound) => (exitStatus # StatusNotFound)
        /\ (message # MsgParse) => (exitStatus # StatusParse)
        /\ (message # MsgOther) => (exitStatus # StatusOther)

\* C3 amended: every failed run ends with status 1, whatever the failure.
\* What tells the failures apart is the message: a missing input file, empty
\* content and a parse failure each end the run at a sys.exit behind their
\* own message; an output path that cannot be opened is reported with the
\* message of the missing input file; any other failure is reported with the
\* generic message when the console can encode the text of the exception,
\* and with no message when it cannot: the run then ends on the
\* UnicodeEncodeError that line 132 raised.
C3_StatusOneMessageByHandler ==
    Failed =>
        /\ exitStatus = 1
        /\ (inKind = "missing") => (pc = "exit" /\ message = MsgNotFound)
        /\ (inKind = "text" /\ strip(inContent) = <<>>) =>
               (pc = "exit" /\ message = MsgEmpty)
        /\ (exc = "ParseError") => (pc = "exit" /\ message = MsgParse)
        /\ (inKind = "text" /\ exc = "FileNotFoundError") =>
               (~outDirOk /\ pc = "exit" /\ message = MsgNotFound)
        /\ (exc \notin {"", "FileNotFoundError", "ParseError"}) =>
               IF CanPrint(excText)
               THEN pc = "exit" /\ message = MsgOther
               ELSE pc = "uncaught" /\ message = ""
        /\ (pc = "uncaught") =>
               (~consoleOk /\ exc = "ValueError" /\ ~FormatIso(ReplaceZ(
                    SystemTimeOf(Parsed.root)[1])).ok)

\* C3 witness: a run has ended on a parse failure, with the parse message
C3_Witness ==
    pc = "exit" /\ exc = "ParseError" /\ message = MsgParse /\ exitStatus = 1

\* C4 as stated: for a valid Event-Schema document and any decorated form of
\* it, the run on the decorated form succeeds with the record of the run on
\* the document itself.
C4_DecoratedSameRecord ==
    (/\ Terminal /\ inKind = "text" /\ outDirOk /\ consoleOk
     /\ IsValidEventDoc(Plain)
     /\ IsDecoratedForm(inContent, undecorated)) =>
        /\ pc = "done"
        /\ Convert(Plain).ok
        /\ csv_data = Convert(Plain).csv_data

\* C4 amended: for an Event-Schema document whose tags each lie on one line
\* and in which no line inside the text of Computer or of a Data element
\* begins with whitespace or "- ", the run on a decorated form ends as the run
\* on the document itself, on the same console: the same record written and
\* the same exit status when the document is valid, the same failure
\* otherwise.
C4_DecoratedSameOutcome ==
    (/\ Terminal /\ inKind = "text" /\ outDirOk
     /\ IsEventDoc(Plain)
     /\ TagsOnOneLine(Plain)
     /\ ValueLinesClean(Plain)
     /\ IsDecoratedForm(inContent, undecorated)) =>
        LET plain == Convert(Plain)
        IN  /\ (csv_data # NoRecord) <=> plain.ok
            /\ plain.ok => /\ csv_data = plain.csv_data
                            /\ outFile.rows = WriteRows(plain.csv_data)
            /\ ~plain.ok => (exc = plain.exc /\ Untouched)
            /\ (pc = "done") <=> (plain.ok /\ consoleOk)
            /\ (exitStatus = 0) <=> (plain.ok /\ consoleOk)
            /\ IsValidEventDoc(Plain) => plain.ok

\* C4 witness: a valid document behind "- " markers has been converted to the
\* record of the document itself
C4_Witness ==
    /\ pc = "done"
    /\ IsValidEventDoc(Plain) /\ TagsOnOneLine(Plain) /\ ValueLinesClean(Plain)
    /\ IsDecoratedForm(inContent, undecorated)
    /\ \A i \in 1..Len(split(inContent)) : StartsWithDashSpace(lstrip(split(inContent)[i]))
    /\ csv_data = Convert(Plain).csv_data

\* the text the cleanup produced
CleanedText == join(cleaned_lines)

\* the Event elements below the root, in document order
EventsBelow(root) ==
    SelectSeq(DescOfKids(root.kids), LAMBDA e : e.tag = "Event" /\ e.ns \in {EVT, ""})

\* the first namespaced Event; the first Event without namespace if none is
\* namespaced
SelectedEvent(root) ==
    LET evs == EventsBelow(root)
        namespaced == {i \in 1..Len(evs) : evs[i].ns = EVT}
        among == IF namespaced = {} THEN 1..Len(evs) ELSE namespaced
    IN  evs[CHOOSE i \in among : \A j \in among : i <= j]

\* the element as a document of its own
AsDocument(e) == tostring([e EXCEPT !.tail = <<>>])

\* C5 as stated: when the cleaned input is a wrapper (its root is not the
\* Event element) that holds Event elements, the run writes the record of the
\* first namespaced Event, or of the first Event without namespace if none is
\* namespaced.  Stated for a selected element that converts on its own.
C5_WrapperFirstEvent ==
    (/\ Terminal /\ inKind = "text" /\ outDirOk /\ consoleOk
     /\ fromstring(CleanedText).ok
     /\ fromstring(CleanedText).root.tag # "Event"
     /\ EventsBelow(fromstring(CleanedText).root) # <<>>
     /\ parse_event_xml(AsDocument(SelectedEvent(fromstring(CleanedText).root))).ok) =>
        /\ pc = "done"
        /\ csv_data =
             parse_event_xml(AsDocument(SelectedEvent(fromstring(CleanedText).root))).csv_data
        /\ outFile.rows = WriteRows(csv_data)

\* C6 as stated: in a well-formed Event document with a well-formed
\* timestamp, an absent Computer, an absent Data element of the four names or
\* an absent EventData gives an empty field: the run succeeds, with seven
\* fields.
C6_AbsentFieldIsEmpty ==
    (/\ Terminal /\ inKind = "text" /\ outDirOk /\ consoleOk
     /\ IsEventDoc(xml_string)
     /\ SystemTimeOf(Parsed.root) # <<>>
     /\ FormatIso(ReplaceZ(SystemTimeOf(Parsed.root)[1])).ok) =>
        /\ pc = "done"
        /\ Len(outFile.rows[2]) = 7
        /\ (ComputerOf(Parsed.root) = <<>>) => (outFile.rows[2][2].s = <<>>)
        /\ \A i \in 3..6 :
              LET name == <<"SubjectUserName", "NewProcessId", "NewProcessName",
                            "CommandLine">>[i - 2]
                  datas == DatasOf(Parsed.root)
              IN  (\A j \in 1..Len(datas) : Get(datas[j], "Name") # <<Str(name)>>)
                      => (outFile.rows[2][i].s = <<>>)

\* C7: a data row is written only when SystemTime parses as a timestamp; a
\* malformed timestamp ends the run with a non-zero status and no output, and
\* the eventdate of a written row is never empty.
C7_MalformedTimestampFatal ==
    LET parsed == Parsed
        t == SystemTimeOf(parsed.root)
        formatted == FormatIso(ReplaceZ(t[1]))
    IN  /\ Written =>
              /\ t # <<>>
              /\ formatted.ok
              /\ outFile.rows[2][1].s = formatted.s
              /\ outFile.rows[2][1].s # <<>>
        /\ (/\ Terminal /\ inKind = "text"
            /\ parsed.ok
            /\ ComputerOf(parsed.root) # <<>>
            /\ t # <<>>
            /\ ~formatted.ok) =>
              /\ Failed /\ exitStatus # 0 /\ exc = "ValueError" /\ Untouched
              /\ (pc = "exit") <=> CanPrint(excText)
              /\ (excText # <<>>) <=> formatted.invalid
              /\ formatted.invalid =>
                     (excText = Str("Invalid isoformat string: ")
                                    \o Repr(ReplaceZ(t[1])))

\* C7 witness: a run on a document with a malformed SystemTime has ended in
\* a failure, and no file exists
C7_Witness ==
    /\ Failed /\ exitStatus = 1 /\ outFile = NoFile
    /\ Parsed.ok /\ SystemTimeOf(Parsed.root) # <<>>
    /\ ~FormatIso(ReplaceZ(SystemTimeOf(Parsed.root)[1])).ok

\* C8: once parse_event_xml has returned, user, processid, image and
\* processcommandline are the text of the last Data element named
\* SubjectUserName, NewProcessId, NewProcessName and CommandLine ('' without
\* text or without such an element), hashes is '', and Data elements of other
\* names do not matter.
C8_LastDataWins ==
    (pc \in {"write", "report", "done"}) =>
        LET datas == DatasOf(Parsed.root)
            mapped == SelectSeq(datas, LAMBDA e :
                          \E n \in {"SubjectUserName", "NewProcessId", "NewProcessName",
                                    "CommandLine"} : Get(e, "Name") = <<Str(n)>>)
        IN  /\ csv_data.user = PyStr(LastDataText(datas, "SubjectUserName"))
            /\ csv_data.processid = PyStr(LastDataText(datas, "NewProcessId"))
            /\ csv_data.image = PyStr(LastDataText(datas, "NewProcessName"))
            /\ csv_data.processcommandline = PyStr(LastDataText(datas, "CommandLine"))
            /\ csv_data.hashes = PyStr(<<>>)
            /\ csv_data.user = PyStr(LastDataText(mapped, "SubjectUserName"))
            /\ csv_data.processid = PyStr(LastDataText(mapped, "NewProcessId"))
            /\ csv_data.image = PyStr(LastDataText(mapped, "NewProcessName"))
            /\ csv_data.processcommandline = PyStr(LastDataText(mapped, "CommandLine"))

\* C8 witness: a document with two SubjectUserName elements of different text
\* has been converted, and user is the text of the second
C8_Witness ==
    /\ pc = "done"
    /\ LET datas == DatasOf(Parsed.root)
       IN  /\ Len(datas) >= 2
           /\ Get(datas[1], "Name") = <<Str("SubjectUserName")>>
           /\ Get(datas[2], "Name") = <<Str("SubjectUserName")>>
           /\ datas[1].text # datas[2].text
           /\ csv_data.user.s = datas[2].text

\* C9: a successful run leaves a file of the header row eventdate, hostname,
\* user, processid, image, processcommandline, hashes and exactly one data row
\* of those seven fields in that order, however many Event elements the input
\* holds.
C9_HeaderAndOneRow ==
    (pc = "done") =>
        /\ outFile.exists
        /\ Len(outFile.rows) = 2
        /\ [i \in 1..Len(outFile.rows[1]) |-> outFile.rows[1][i].s] =
               <<Str("eventdate"), Str("hostname"), Str("user"), Str("processid"),
                 Str("image"), Str("processcommandline"), Str("hashes")>>
        /\ [i \in 1..Len(outFile.rows[2]) |-> outFile.rows[2][i].s] =
               <<csv_data.eventdate.s,
                 IF csv_data.hostname.none THEN <<>> ELSE csv_data.hostname.s,
                 csv_data.user.s, csv_data.processid.s, csv_data.image.s,
                 csv_data.processcommandline.s, csv_data.hashes.s>>

\* C9 witness: a wrapper of two Event elements has been converted to a file
\* of two rows
C9_Witness ==
    /\ pc = "done"
    /\ fromstring(CleanedText).ok
    /\ Len(EventsBelow(fromstring(CleanedText).root)) >= 2
    /\ Len(outFile.rows) = 2

\* the lines of a str
RECURSIVE Lines(_)
Lines(cs) ==
    IF \E i \in 1..Len(cs) : cs[i] = "\n"
    THEN LET i == CHOOSE j \in 1..Len(cs) :
                      cs[j] = "\n" /\ \A m \in 1..(j - 1) : cs[m] # "\n"
         IN  <<SubSeq(cs, 1, i - 1)>> \o Lines(SubSeq(cs, i + 1, Len(cs)))
    ELSE <<cs>>

\* the number of whitespace characters a line begins with
LeadingSpaces(line) ==
    CHOOSE k \in 0..Len(line) :
        /\ \A i \in 1..k : IsSpace(line[i])
        /\ k = Len(line) \/ ~IsSpace(line[k + 1])

\* the line without its leading whitespace and without one "- " after it
ExpectedClean(line) ==
    LET k == LeadingSpaces(line)
        marked == k + 2 <= Len(line) /\ line[k + 1] = "-" /\ line[k + 2] = " "
    IN  SubSeq(line, IF marked THEN k + 3 ELSE k + 1, Len(line))

IsSuffix(s, line) == \E k \in 0..Len(line) : s = SubSeq(line, k + 1, Len(line))

\* C10: the cleanup maps every line of the input as it was read, markup or
\* character data alike, to the line without its leading whitespace and
\* without at most one "- " after it; the lines keep their number and order,
\* every cleaned line is a suffix of its line, and the "<Event" check, the
\* recovery and the parse work on the cleaned text.
C10_CleanupPerLine ==
    LET lines == Lines(Text(ReadText(inContent)))
        cleaned == Lines(Text(CleanedText))
    IN  /\ (pc \in {"read", "check_empty", "cleanup"}) =>
              (cleaned_lines = <<>> /\ csv_data = NoRecord /\ exc \in {"", "FileNotFoundError"})
        /\ (pc = "cleanup") => (xml_string = ReadText(inContent))
        /\ (pc = "recover") =>
              /\ xml_string = CleanedText
              /\ Len(cleaned) = Len(lines)
              /\ \A i \in 1..Len(lines) :
                    /\ cleaned[i] = ExpectedClean(lines[i])
                    /\ IsSuffix(cleaned[i], lines[i])
        /\ (pc \in {"parse", "write", "report", "done"}) =>
              (xml_string = Recover(CleanedText))

\* C10 witness: the cleanup has run on a line that began with two markers, and
\* kept the second
C10_Witness ==
    /\ pc = "recover"
    /\ \E i \in 1..Len(cleaned_lines) :
          /\ StartsWithDashSpace(lstrip(split(ReadText(inContent))[i]))
          /\ StartsWithDashSpace(cleaned_lines[i])

====
